---- MODULE Spec2Model ----
(***************************************************************************)
(* A model of the ragger retrieval-and-generation pipeline                 *)
(* (mark-hingston/ragger): the error classifier, the getContext step and   *)
(* the evaluateAndRetry step, each as a state machine translated from its  *)
(* TypeScript source.                                                      *)
(*                                                                         *)
(* Conventions.  A JavaScript string is a sequence of one-character        *)
(* strings where its characters matter (context blobs, answers) and a      *)
(* sequence of words where only its words matter (error messages).  An    *)
(* optional value is a sequence of length 0 (absent, undefined) or 1.      *)
(* Scores and similarities are in tenths (0.6 is 6).                       *)
(***************************************************************************)
EXTENDS Integers, Sequences, FiniteSets, TLC

VARIABLES
    \* ---- error classifier (errorUtils.ts, errors.ts)
    cls_pc,        \* "idle" | "caught" | "classified"
    cls_error,     \* the error value a catch block holds
    cls_original,  \* the value the external call threw
    cls_retryable, \* what isRetryableError returned for cls_error
    cls_wraps,     \* how many WorkflowError wrappers cls_error passed through
    \* ---- evaluateAndRetry step (evaluateAndRetryStep.ts)
    ev_pc,         \* position of execute()
    ev_input,      \* inputData: relevantContext, generatedAnswer
    ev_mastra,     \* which collaborators the Mastra instance has
    ev_attempt,    \* 1: initial evaluation, 2: evaluation of the regenerated answer
    ev_answer,     \* answerToEvaluate of the evaluation in progress
    ev_judge,      \* result.object of the judge call of the evaluation in progress
    ev_final,      \* finalEvalResult
    ev_first,      \* the evaluation result of attempt 1, once it returned
    ev_calls,      \* every external call issued, in order
    ev_grounds,    \* every groundedness check made, in order
    ev_events,     \* how every external call ended (resolved or rejected), in order
    ev_output,     \* the envelope execute() returned, if it returned
    ev_thrown,     \* the error that escaped execute(), if one did
    \* ---- getContext step (getContextStep.ts)
    gc_pc,         \* position of execute()
    gc_input,      \* inputData: decision (strategy, filter), queryText, userQuery
    gc_mastra,     \* which collaborators the Mastra instance has
    gc_hybrid,     \* env.HYBRID_SEARCH_ENABLED
    gc_store,      \* what the retrieval agent answers to the first and second query
    gc_sparse,     \* querySparseVector, if one was generated
    gc_paths,      \* topNFilePaths, once phase A of hierarchical returned
    gc_response,   \* response, once assigned
    gc_calls,      \* every agent.generate call issued, in order
    gc_output,     \* relevantContext returned, if execute() returned
    gc_thrown,     \* the error that escaped execute(), if one did
    gc_run,        \* which run of the step this is, in this process
    gc_reads,      \* how often the vocabulary resource was read, in this process
    gc_load,       \* how the sparse vector generation of this run ended, if it ran
    \* ---- ragWorkflow (ragWorkflow.ts) with transformQuery and decideRetrieval
    wf_pc,         \* the step the run is at, or "done" / "failed"
    wf_initData,   \* the workflow input: userQuery
    wf_mode,       \* env.QUERY_TRANSFORMATION_TYPE
    wf_compression, \* env.CONTEXTUAL_COMPRESSION_ENABLED
    wf_mastra,     \* the agents the Mastra instance has, if there is an instance
    wf_results,    \* the output of every step that returned
    wf_inputs,     \* the inputData every started step was given, in order
    wf_lookups,    \* every mastra.getAgent lookup of the steps, in order
    wf_calls,      \* the agent.generate calls of the steps, in order
    wf_thrown,     \* the error that ended the run, if one did
    \* ---- context records: the formatter of getContextStep.ts and
    \* ---- parseContextSnippets of compressContextStep.ts
    rt_pc,         \* "idle" | "start" | "formatted" | "parsed"
    rt_snippets,   \* the {filePath, content} pairs handed to the formatter
    rt_blob,       \* the blob the formatter built
    rt_parsed,     \* what parseContextSnippets made of the blob
    \* ---- compressContext step (compressContextStep.ts)
    cc_pc,         \* position of execute()
    cc_enabled,    \* env.CONTEXTUAL_COMPRESSION_ENABLED
    cc_input,      \* inputData: userQuery, relevantContext
    cc_mastra,     \* the agents the Mastra instance has, if there is an instance
    cc_snippets,   \* snippets, once parsed
    cc_next,       \* index of the snippet whose extraction call is awaited
    cc_compressedSnippets, \* compressedSnippets
    cc_calls,      \* every extraction call issued, in order
    cc_outcomes,   \* how every extraction call ended, in order
    cc_output,     \* finalCompressedContext returned, if execute() returned
    cc_thrown,     \* the error that escaped execute(), if one did
    \* ---- QdrantVector.query (qdrantVector.ts)
    qv_pc,         \* position of query()
    qv_params,     \* the normalized arguments of the call
    qv_requests,   \* every request sent to the store client, in order
    qv_result,     \* the QueryResult[] returned, if query() returned
    qv_thrown,     \* the error that escaped query(), if one did
    \* ---- QdrantVector.upsert (qdrantVector.ts)
    up_pc,         \* position of upsert()
    up_params,     \* the normalized arguments: vectors, metadata, ids
    up_pointIds,   \* pointIds
    up_records,    \* records
    up_i,          \* the loop index i
    up_acks,       \* how many client.upsert calls have resolved
    up_requests,   \* every client.upsert request issued, in order
    up_result,     \* the id list returned, if upsert() returned
    up_thrown,     \* the error that escaped upsert(), if one did
    \* ---- QdrantVector.updateIndexById / deleteIndexById (qdrantVector.ts)
    pid_pc,        \* position of the call
    pid_call,      \* the method called and its arguments: id, update
    pid_requests,  \* every request sent to the store client, in order
    pid_thrown,    \* the error that escaped the call, if one did
    \* ---- QdrantFilterTranslator (qdrantFilter.ts)
    ft_pc,         \* "idle" | "start" | "translated" | "failed"
    ft_filter,     \* the filter handed to translate()
    ft_result,     \* what translate() returned, or the error it threw
    \* ---- processQueryForSparseVector (sparseVectorHelper.ts, tokenProcessor.ts)
    sv_pc,         \* "idle" | "start" | "done"
    sv_query,      \* query
    sv_vocabulary, \* vocabulary, if one was loaded
    sv_result,     \* the sparse vector returned, if one was
    \* ---- QdrantVector.upsert, updateIndexById, deleteIndexById against one store
    st_pc,         \* "idle" | "first" | "second" | "done"
    st_calls,      \* the calls made so far: method, id string, point addressed
    st_points      \* the identifiers of the points the store holds

clsVars == <<cls_pc, cls_error, cls_original, cls_retryable, cls_wraps>>
evVars == <<ev_pc, ev_input, ev_mastra, ev_attempt, ev_answer, ev_judge, ev_final,
            ev_first, ev_calls, ev_grounds, ev_events, ev_output, ev_thrown>>
gcVars == <<gc_pc, gc_input, gc_mastra, gc_hybrid, gc_store, gc_sparse, gc_paths,
            gc_response, gc_calls, gc_output, gc_thrown, gc_run, gc_reads, gc_load>>
wfVars == <<wf_pc, wf_initData, wf_mode, wf_compression, wf_mastra, wf_results,
            wf_inputs, wf_lookups, wf_calls, wf_thrown>>
rtVars == <<rt_pc, rt_snippets, rt_blob, rt_parsed>>
ccVars == <<cc_pc, cc_enabled, cc_input, cc_mastra, cc_snippets, cc_next,
            cc_compressedSnippets, cc_calls, cc_outcomes, cc_output, cc_thrown>>
qvVars == <<qv_pc, qv_params, qv_requests, qv_result, qv_thrown>>
upVars == <<up_pc, up_params, up_pointIds, up_records, up_i, up_acks,
            up_requests, up_result, up_thrown>>
pidVars == <<pid_pc, pid_call, pid_requests, pid_thrown>>
ftVars == <<ft_pc, ft_filter, ft_result>>
svVars == <<sv_pc, sv_query, sv_vocabulary, sv_result>>
stVars == <<st_pc, st_calls, st_points>>
vars == <<clsVars, evVars, gcVars, wfVars, rtVars, ccVars, qvVars, upVars,
          pidVars, ftVars, svVars, stVars>>

None == <<>>
Some(x) == <<x>>

(***************************************************************************)
(* Strings                                                                 *)
(***************************************************************************)
\* The white space String.prototype.trim removes: blanks and line breaks.
IsWhitespace(c) == c \in {" ", "\n"}

RECURSIVE TrimStart(_)
TrimStart(s) ==
    IF s = <<>> THEN <<>>
    ELSE IF IsWhitespace(Head(s)) THEN TrimStart(Tail(s)) ELSE s

RECURSIVE TrimEnd(_)
TrimEnd(s) ==
    IF s = <<>> THEN <<>>
    ELSE IF IsWhitespace(s[Len(s)]) THEN TrimEnd(SubSeq(s, 1, Len(s) - 1)) ELSE s

\* String.prototype.trim
Trim(s) == TrimEnd(TrimStart(s))

\* String.prototype.slice(0, n)
Slice0(s, n) == SubSeq(s, 1, IF Len(s) < n THEN Len(s) ELSE n)

RECURSIVE StringsUpTo(_, _)
StringsUpTo(chars, n) ==
    IF n = 0 THEN {<<>>}
    ELSE LET shorter == StringsUpTo(chars, n - 1)
         IN shorter \cup {Append(s, c) : s \in shorter, c \in chars}

(***************************************************************************)
(* Errors: errors.ts and errorUtils.ts                                     *)
(***************************************************************************)
\* A thrown value.  type: what the value is; statusIsNumber / status: its
\* status property; message: its message (the string itself for a thrown
\* string); isRetryable: the WorkflowError field.
ErrorValue(type, statusIsNumber, status, message, isRetryable) ==
    [type |-> type, statusIsNumber |-> statusIsNumber, status |-> status,
     message |-> message, isRetryable |-> isRetryable]

\* new WorkflowError(message, isRetryable)
WorkflowError(message, isRetryable) ==
    ErrorValue("WorkflowError", FALSE, 0, message, isRetryable)

\* new Error(message)
PlainError(message) == ErrorValue("Error", FALSE, 0, message, FALSE)

\* error instanceof Error (WorkflowError extends Error)
InstanceOfError(e) == e.type \in {"Error", "WorkflowError"}

\* !error
IsFalsy(e) == e.type \in {"null", "undefined"}

\* String.prototype.toLowerCase, word by word
LowerWord(w) ==
    CASE w = "ECONNREFUSED" -> "econnrefused"
      [] w = "Timeout" -> "timeout"
      [] w = "Network Error" -> "network error"
      [] w = "Fetch Failed" -> "fetch failed"
      [] OTHER -> w

ToLowerCase(m) == [i \in 1..Len(m) |-> LowerWord(m[i])]

\* String.prototype.includes, on words
Includes(m, w) == \E i \in 1..Len(m) : m[i] = w

RetryablePatterns == {"econnrefused", "timeout", "network error", "fetch failed"}

StatusIsRetryableMutant(status) == status = 429 \/ status > 500

\* error.status === 429 || error.status >= 500
StatusIsRetryable(status) == status = 429 \/ status >= 500

isRetryableErrorMutant(error) ==
    IF IsFalsy(error) THEN FALSE
    ELSE IF error.statusIsNumber /\ StatusIsRetryable(error.status) THEN TRUE
    ELSE IF InstanceOfError(error)
            /\ \E p \in RetryablePatterns : Includes(ToLowerCase(error.message), p)
         THEN TRUE
    ELSE FALSE

\* isRetryableError(error)
isRetryableError(error) ==
    IF IsFalsy(error) THEN FALSE
    ELSE IF error.type = "WorkflowError" THEN error.isRetryable
    ELSE IF error.statusIsNumber /\ StatusIsRetryable(error.status) THEN TRUE
    ELSE IF InstanceOfError(error)
            /\ \E p \in RetryablePatterns : Includes(ToLowerCase(error.message), p)
         THEN TRUE
    ELSE FALSE

\* error instanceof Error ? error.message : String(error)
MessageOf(error) ==
    IF InstanceOfError(error) THEN error.message
    ELSE CASE error.type = "string" -> error.message
           [] error.type = "null" -> <<"null">>
           [] error.type = "undefined" -> <<"undefined">>
           [] OTHER -> <<"[object Object]">>

\* The catch block every step ends with:
\*   throw new WorkflowError(prefix + ': ' + message, isRetryableError(error))
Rethrow(prefix, error) ==
    WorkflowError(<<prefix>> \o MessageOf(error), isRetryableError(error))

(***************************************************************************)
(* The classifier at work: an external call throws, a catch block          *)
(* classifies the value and rethrows it wrapped, an outer catch block      *)
(* classifies the wrapper.                                                 *)
(***************************************************************************)
MaxWraps == 2

Statuses == {400, 429, 499, 500, 503}

MessageWords == {"boom", "ECONNREFUSED", "timeout", "Timeout", "network error",
                 "Fetch Failed"}

Messages == {<<>>} \cup {<<w>> : w \in MessageWords}

\* What an LLM, embedding or vector-store client can throw.
ThrownValues ==
    {ErrorValue(t, FALSE, 0, <<>>, FALSE) : t \in {"null", "undefined"}}
    \cup {ErrorValue("string", FALSE, 0, m, FALSE) : m \in Messages}
    \cup {ErrorValue(t, FALSE, 0, m, FALSE) : t \in {"Error", "object"}, m \in Messages}
    \cup {ErrorValue(t, TRUE, st, m, FALSE) :
            t \in {"Error", "object"}, st \in Statuses, m \in Messages}

\* The text each catch block puts before the message of what it caught.
StagePrefix ==
    [transformQuery |-> "Failed to transform query in step transformQuery",
     decideRetrieval |-> "Failed to decide retrieval strategy in step decideRetrieval",
     getContext |-> "Failed to get context in step getContext with strategy",
     compressContext |-> "Failed to compress context in step compressContext",
     generateResponse |-> "Failed to generate initial response in step generateResponse",
     evaluateAndRetry |-> "An unexpected error occurred in step evaluateAndRetry"]

EmbeddingPrefix == "Embedding failed during groundedness check"
EvaluatePrefix == "Failed to evaluate answer"
RegeneratePrefix == "Failed to regenerate response within step evaluateAndRetry"

ClsIdle ==
    /\ cls_pc = "idle"
    /\ cls_error = ErrorValue("undefined", FALSE, 0, <<>>, FALSE)
    /\ cls_original = cls_error
    /\ cls_retryable = FALSE
    /\ cls_wraps = 0

ClsInit ==
    /\ cls_pc = "caught"
    /\ cls_error \in ThrownValues
    /\ cls_original = cls_error
    /\ cls_retryable = FALSE
    /\ cls_wraps = 0

\* const isRetryable = isRetryableError(error);
Classify ==
    /\ cls_pc = "caught"
    /\ cls_retryable' = isRetryableError(cls_error)
    /\ cls_pc' = "classified"
    /\ UNCHANGED <<cls_error, cls_original, cls_wraps>>

\* throw new WorkflowError(prefix + ': ' + message, isRetryable), caught one level up
WrapAndRethrow ==
    /\ cls_pc = "classified"
    /\ cls_wraps < MaxWraps
    /\ \E prefix \in {EvaluatePrefix, StagePrefix.getContext} :
          cls_error' = WorkflowError(<<prefix>> \o MessageOf(cls_error), cls_retryable)
    /\ cls_wraps' = cls_wraps + 1
    /\ cls_pc' = "caught"
    /\ UNCHANGED <<cls_original, cls_retryable>>

(***************************************************************************)
(* evaluateAndRetry: evaluateAndRetryStep.ts                               *)
(***************************************************************************)
\* env.RETRY_THRESHOLD (default 0.6) and env.GROUNDEDNESS_THRESHOLD
\* (default 0.7), in tenths.
RETRY_THRESHOLD == 6
GROUNDEDNESS_THRESHOLD == 7

\* const MAX_CONTEXT_LENGTH = 8000, scaled down with the context blobs.
MAX_CONTEXT_LENGTH == 2
\* Longest context blob of the model: longer than MAX_CONTEXT_LENGTH, so
\* that blobs are cut.
MaxContextChars == 3

ContextBlobs == StringsUpTo({" ", "x"}, MaxContextChars)
GeneratedAnswers == {<<>>, <<" ">>, <<"a">>}
RegeneratedAnswers == {<<>>, <<"b">>}
\* z.number().min(0).max(1)
Scores == {0, RETRY_THRESHOLD - 1, RETRY_THRESHOLD, RETRY_THRESHOLD + 1, 10}
Similarities == {GROUNDEDNESS_THRESHOLD - 1, GROUNDEDNESS_THRESHOLD,
                 GROUNDEDNESS_THRESHOLD + 1, 10}
\* What the judge, embedding and regeneration calls throw in this model.
EvThrown ==
    {ErrorValue("Error", TRUE, 503, <<"boom">>, FALSE),
     ErrorValue("Error", FALSE, 0, <<"Timeout">>, FALSE),
     ErrorValue("Error", FALSE, 0, <<"boom">>, FALSE),
     ErrorValue("string", FALSE, 0, <<"timeout">>, FALSE)}

NoContextAnswer == <<"No relevant context found to generate an answer.">>

IsBlankMutant(s) == s = <<>>

\* !s || s.trim().length === 0
IsBlank(s) == s = <<>> \/ Len(Trim(s)) = 0

truncatedContextMutant == ev_input.relevantContext

\* inputData.relevantContext.slice(0, MAX_CONTEXT_LENGTH)
truncatedContext == Slice0(ev_input.relevantContext, MAX_CONTEXT_LENGTH)

\* mastra?.getAgent(name)
HasAgent(mastra, agent) ==
    CASE mastra = "undefined" -> FALSE
      [] mastra = "noRagAgent" -> agent # "ragAgent"
      [] mastra = "noEvaluationAgent" -> agent # "evaluationAgent"
      [] OTHER -> TRUE

NeedsRetryMutant(score) == score <= RETRY_THRESHOLD

\* if (finalEvalResult.score < RETRY_THRESHOLD)
NeedsRetry(score) == score < RETRY_THRESHOLD

AfterEvaluationMutant(attempt, score) ==
    IF NeedsRetry(score) THEN "regenerate" ELSE "return"

\* What follows an evaluation: the conditional retry stands after the
\* initial evaluation only; the second evaluation is followed by the return.
AfterEvaluation(attempt, score) ==
    IF attempt = 1 /\ NeedsRetry(score) THEN "regenerate" ELSE "return"

GroundednessSkippedMutant(answer, context) == IsBlank(context)

\* isAnswerGrounded returns false before embedding anything:
\*   !context || context.trim().length === 0, then the same for answer
GroundednessSkipped(answer, context) == IsBlank(context) \/ IsBlank(answer)

IsGroundedVerdictMutant(similarity) == similarity >= GROUNDEDNESS_THRESHOLD

\* return similarity > env.GROUNDEDNESS_THRESHOLD
IsGroundedVerdict(similarity) == similarity > GROUNDEDNESS_THRESHOLD

Call(kind, answer, context) == [kind |-> kind, answer |-> answer, context |-> context]

EvIdle ==
    /\ ev_pc = "idle"
    /\ ev_input = [relevantContext |-> <<>>, generatedAnswer |-> <<>>]
    /\ ev_mastra = "ok"
    /\ ev_attempt = 0
    /\ ev_answer = <<>>
    /\ ev_judge = None
    /\ ev_final = None
    /\ ev_first = None
    /\ ev_calls = <<>>
    /\ ev_grounds = <<>>
    /\ ev_events = <<>>
    /\ ev_output = None
    /\ ev_thrown = None

EvInit ==
    /\ ev_pc = "start"
    /\ ev_input \in [relevantContext : ContextBlobs, generatedAnswer : GeneratedAnswers]
    /\ ev_mastra \in {"undefined", "noRagAgent", "noEvaluationAgent", "ok"}
    /\ ev_attempt = 0
    /\ ev_answer = <<>>
    /\ ev_judge = None
    /\ ev_final = None
    /\ ev_first = None
    /\ ev_calls = <<>>
    /\ ev_grounds = <<>>
    /\ ev_events = <<>>
    /\ ev_output = None
    /\ ev_thrown = None

\* An error leaves execute().
EvFail(error) ==
    /\ ev_thrown' = Some(error)
    /\ ev_pc' = "failed"

\* The catch block of execute() (main execution).
EvMainCatch(error) == EvFail(Rethrow(StagePrefix.evaluateAndRetry, error))

\* evaluateAnswer up to its first await: the agent lookup, then the judge call.
EvBeginEvaluation(attempt, answer, calls) ==
    IF ~HasAgent(ev_mastra, "evaluationAgent")
    THEN /\ EvMainCatch(PlainError(<<"EvaluationAgent not found in Mastra instance.">>))
         /\ ev_calls' = calls
         /\ UNCHANGED <<ev_attempt, ev_answer>>
    ELSE /\ ev_calls' = Append(calls, Call("judge", answer, truncatedContext))
         /\ ev_attempt' = attempt
         /\ ev_answer' = answer
         /\ ev_pc' = "judging"
         /\ UNCHANGED ev_thrown

\* execute() from its entry to its first await.
EvStart ==
    /\ ev_pc = "start"
    /\ IF IsBlank(ev_input.relevantContext)
       THEN /\ ev_output' = Some([finalAnswer |-> NoContextAnswer,
                                  evaluationScore |-> None, isGrounded |-> None])
            /\ ev_pc' = "done"
            /\ UNCHANGED <<ev_attempt, ev_answer, ev_calls, ev_thrown>>
       ELSE IF ~HasAgent(ev_mastra, "ragAgent")
       THEN /\ EvFail(PlainError(<<"RagAgent not found in Mastra instance.">>))
            /\ UNCHANGED <<ev_attempt, ev_answer, ev_calls, ev_output>>
       ELSE /\ EvBeginEvaluation(1, ev_input.generatedAnswer, ev_calls)
            /\ UNCHANGED ev_output
    /\ UNCHANGED <<ev_input, ev_mastra, ev_judge, ev_final, ev_first, ev_grounds,
                   ev_events>>

EvEvaluationReturnsMutant(score, isGrounded, calls) ==
    LET result == [score |-> score, isGrounded |-> isGrounded, answer |-> ev_answer]
        best == IF ev_attempt = 2 /\ ev_first[1].score > score THEN ev_first[1] ELSE result
    IN /\ ev_final' = Some(result)
       /\ ev_first' = IF ev_attempt = 1 THEN Some(result) ELSE ev_first
       /\ ev_judge' = None
       /\ IF AfterEvaluation(ev_attempt, score) = "regenerate"
          THEN /\ ev_calls' = Append(calls, Call("regenerate", ev_answer, truncatedContext))
               /\ ev_pc' = "regenerating"
               /\ UNCHANGED <<ev_output, ev_thrown>>
          ELSE /\ ev_output' = Some([finalAnswer |-> best.answer,
                                     evaluationScore |-> Some(best.score),
                                     isGrounded |-> Some(best.isGrounded)])
               /\ ev_pc' = "done"
               /\ ev_calls' = calls
               /\ UNCHANGED ev_thrown

\* evaluateAnswer returns { score, isGrounded, answer }; execute() goes on to
\* the conditional retry or to the return.
EvEvaluationReturns(score, isGrounded, calls) ==
    LET result == [score |-> score, isGrounded |-> isGrounded, answer |-> ev_answer]
    IN /\ ev_final' = Some(result)
       /\ ev_first' = IF ev_attempt = 1 THEN Some(result) ELSE ev_first
       /\ ev_judge' = None
       /\ IF AfterEvaluation(ev_attempt, score) = "regenerate"
          THEN /\ ev_calls' = Append(calls, Call("regenerate", ev_answer, truncatedContext))
               /\ ev_pc' = "regenerating"
               /\ UNCHANGED <<ev_output, ev_thrown>>
          ELSE /\ ev_output' = Some([finalAnswer |-> result.answer,
                                     evaluationScore |-> Some(result.score),
                                     isGrounded |-> Some(result.isGrounded)])
               /\ ev_pc' = "done"
               /\ ev_calls' = calls
               /\ UNCHANGED ev_thrown

\* How an external call ended: the value it resolved with (the judge's
\* overall score, the cosine similarity of the two embeddings) or the error
\* it rejected with.
Event(kind, value, error) == [kind |-> kind, value |-> value, error |-> error]

GroundCheck(answer, context, embedded, verdict) ==
    [answer |-> answer, context |-> context, embedded |-> embedded, verdict |-> verdict]

\* The judge call resolves; isAnswerGrounded runs up to its await.
EvJudgeReturns ==
    /\ ev_pc = "judging"
    /\ \E score \in Scores :
        /\ ev_events' = Append(ev_events, Event("judge", Some(score), None))
        /\ IF GroundednessSkipped(ev_answer, truncatedContext)
          THEN /\ ev_grounds' = Append(ev_grounds,
                                   GroundCheck(ev_answer, truncatedContext, FALSE, Some(FALSE)))
               /\ EvEvaluationReturns(score, FALSE, ev_calls)
          ELSE /\ ev_judge' = Some(score)
               /\ ev_calls' = ev_calls
                     \o <<Call("embedAnswer", ev_answer, <<>>),
                          Call("embedContext", <<>>, truncatedContext)>>
               /\ ev_pc' = "embedding"
               /\ UNCHANGED <<ev_final, ev_first, ev_grounds, ev_output, ev_thrown>>
    /\ UNCHANGED <<ev_input, ev_mastra, ev_attempt, ev_answer>>

\* The judge call rejects: the catch of evaluateAnswer, then that of execute().
EvJudgeThrows ==
    /\ ev_pc = "judging"
    /\ \E e \in EvThrown :
          /\ EvMainCatch(Rethrow(EvaluatePrefix, e))
          /\ ev_events' = Append(ev_events, Event("judge", None, Some(e)))
    /\ UNCHANGED <<ev_input, ev_mastra, ev_attempt, ev_answer, ev_judge, ev_final,
                   ev_first, ev_calls, ev_grounds, ev_output>>

\* Promise.all of the two embed calls resolves: with both embeddings
\* (cosine similarity s), or with a result that carries no embedding.
EvEmbedReturns ==
    /\ ev_pc = "embedding"
    /\ \E outcome \in {None} \cup {Some(s) : s \in Similarities} :
          LET verdict == IF outcome = None THEN FALSE ELSE IsGroundedVerdict(outcome[1])
          IN /\ ev_events' = Append(ev_events, Event("embed", outcome, None))
             /\ ev_grounds' = Append(ev_grounds,
                                  GroundCheck(ev_answer, truncatedContext, TRUE, Some(verdict)))
             /\ EvEvaluationReturns(ev_judge[1], verdict, ev_calls)
    /\ UNCHANGED <<ev_input, ev_mastra, ev_attempt, ev_answer>>

EvEmbedThrowsMutant ==
    /\ ev_pc = "embedding"
    /\ \E e \in EvThrown : ev_events' = Append(ev_events, Event("embed", None, Some(e)))
    /\ ev_grounds' = Append(ev_grounds,
                            GroundCheck(ev_answer, truncatedContext, TRUE, Some(FALSE)))
    /\ EvEvaluationReturns(ev_judge[1], FALSE, ev_calls)
    /\ UNCHANGED <<ev_input, ev_mastra, ev_attempt, ev_answer>>

\* An embed call rejects: the catch of isAnswerGrounded, of evaluateAnswer,
\* of execute().
EvEmbedThrows ==
    /\ ev_pc = "embedding"
    /\ \E e \in EvThrown :
          /\ EvMainCatch(Rethrow(EvaluatePrefix, Rethrow(EmbeddingPrefix, e)))
          /\ ev_events' = Append(ev_events, Event("embed", None, Some(e)))
    /\ ev_grounds' = Append(ev_grounds, GroundCheck(ev_answer, truncatedContext, TRUE, None))
    /\ UNCHANGED <<ev_input, ev_mastra, ev_attempt, ev_answer, ev_judge, ev_final,
                   ev_first, ev_calls, ev_output>>

\* The regeneration call resolves: the second evaluation begins.
EvRegenReturns ==
    /\ ev_pc = "regenerating"
    /\ \E regeneratedAnswer \in RegeneratedAnswers :
          EvBeginEvaluation(2, regeneratedAnswer, ev_calls)
    /\ ev_events' = Append(ev_events, Event("regenerate", None, None))
    /\ UNCHANGED <<ev_input, ev_mastra, ev_judge, ev_final, ev_first, ev_grounds,
                   ev_output>>

\* The regeneration call rejects: its own catch, then that of execute().
EvRegenThrows ==
    /\ ev_pc = "regenerating"
    /\ \E e \in EvThrown :
          /\ EvMainCatch(Rethrow(RegeneratePrefix, e))
          /\ ev_events' = Append(ev_events, Event("regenerate", None, Some(e)))
    /\ UNCHANGED <<ev_input, ev_mastra, ev_attempt, ev_answer, ev_judge, ev_final,
                   ev_first, ev_calls, ev_grounds, ev_output>>

(***************************************************************************)
(* getContext: getContextStep.ts                                           *)
(***************************************************************************)
\* env.HIERARCHICAL_TOP_N_SUMMARIES (default 3)
HIERARCHICAL_TOP_N_SUMMARIES == 3

Strategies == {"basic", "metadata", "graph", "documentation", "example", "hierarchical"}

\* decision.filter: null, {} or an object with at least one key
Filters == {"null", "empty", "nonEmpty"}

retrievalDecisionSchemaMutant(decision) ==
    /\ decision.strategy \in Strategies
    /\ decision.filter \in Filters
    /\ decision.strategy = "graph" => decision.filter = "null"

\* retrievalDecisionSchema: the refinement lets graph, basic and
\* hierarchical through with a null filter only.
retrievalDecisionSchema(decision) ==
    /\ decision.strategy \in Strategies
    /\ decision.filter \in Filters
    /\ decision.strategy \in {"graph", "basic", "hierarchical"} => decision.filter = "null"

\* A retrieved item; a missing or empty field is "".
Item(source, metaSource, metaFilePath, text, content) ==
    [source |-> source, metaSource |-> metaSource, metaFilePath |-> metaFilePath,
     text |-> text, content |-> content]

ItemA == Item("a.ts", "", "", "text a", "")
ItemB == Item("", "b.ts", "b-path", "", "content b")
ItemU == Item("", "", "", "", "")
ItemC == Item("", "c.ts", "", "text c", "")
ItemD == Item("", "d.ts", "", "text d", "")
ItemE == Item("", "e.ts", "", "text e", "")

\* One entry of response.toolResults.  result.shape: "array" (the result is
\* the array of items), "wrapped" ({ relevantContext: items }), "falsy"
\* (undefined or null), "object" (an object without a relevantContext array).
ToolResult(toolName, shape, items) ==
    [toolName |-> toolName, result |-> [shape |-> shape, items |-> items]]

\* What agent.generate resolves to: toolResults (absent, or an array) and text.
Response(toolResults, text) == [toolResults |-> toolResults, text |-> text]

VectorResult(shape, items) ==
    Response(Some(<<ToolResult("vectorQueryTool", shape, items)>>), "")

Responses ==
    {Response(None, "raw text"),
     Response(Some(<<>>), "raw text"),
     VectorResult("array", <<>>),
     VectorResult("wrapped", <<>>),
     VectorResult("falsy", <<>>),
     VectorResult("array", <<ItemA>>),
     VectorResult("array", <<ItemB, ItemA>>),
     VectorResult("wrapped", <<ItemB, ItemU>>),
     Response(Some(<<ToolResult("vectorQueryTool", "array", <<>>),
                     ToolResult("vectorQueryTool", "wrapped", <<ItemU>>)>>), ""),
     VectorResult("array", <<ItemB, ItemC, ItemD, ItemE>>),
     Response(Some(<<ToolResult("vectorQueryTool", "array", <<ItemB, ItemC>>),
                     ToolResult("vectorQueryTool", "array", <<ItemD, ItemE>>)>>), "")}

GcThrown ==
    {ErrorValue("Error", TRUE, 429, <<"boom">>, FALSE),
     ErrorValue("Error", FALSE, 0, <<"boom">>, FALSE)}

\* Array.isArray(result) ? result
\*   : Array.isArray(result.relevantContext) ? result.relevantContext : []
ResultItems(result) ==
    IF result.shape \in {"array", "wrapped"} THEN result.items ELSE <<>>

\* toolResult.toolName === toolName && toolResult.result
MatchesTool(toolResult, toolName) ==
    toolResult.toolName = toolName /\ toolResult.result.shape # "falsy"

\* toolResults.flatMap(...) of the formatter, and the forEach loops of the
\* hierarchical branch
RECURSIVE FlatItems(_, _)
FlatItems(toolResults, toolName) ==
    IF toolResults = <<>> THEN <<>>
    ELSE (IF MatchesTool(Head(toolResults), toolName)
          THEN ResultItems(Head(toolResults).result) ELSE <<>>)
         \o FlatItems(Tail(toolResults), toolName)

\* item.source || item.metadata?.source || item.metadata?.filePath || 'unknown file'
FilePath(item) ==
    IF item.source # "" THEN item.source
    ELSE IF item.metaSource # "" THEN item.metaSource
    ELSE IF item.metaFilePath # "" THEN item.metaFilePath
    ELSE "unknown file"

\* item.text || item.content || ''
Content(item) == IF item.text # "" THEN item.text ELSE item.content

\* The record "File: <filePath>\n<fence>\n<content>\n<fence>\n---\n", as its
\* five pieces; <fence> stands for the three backquotes of a fenced block.
FormatItem(item) ==
    <<"File: ", FilePath(item), "\n<fence>\n", Content(item), "\n<fence>\n---\n">>

\* allContextItems.map(...).join('')
RECURSIVE FormatItems(_)
FormatItems(items) ==
    IF items = <<>> THEN <<>>
    ELSE FormatItem(Head(items)) \o FormatItems(Tail(items))

\* "Format the context": the blob of a response
FormatContext(response, toolName) ==
    IF response.toolResults # None
    THEN FormatItems(FlatItems(response.toolResults[1], toolName))
    ELSE IF response.text # "" THEN <<response.text>> ELSE <<>>

\* const currentResponseItems = response.toolResults?.[0]?.result;
\* Array.isArray(currentResponseItems) && currentResponseItems.length === 0
NoResultsFromFilteredSearch(response) ==
    /\ response.toolResults # None
    /\ Len(response.toolResults[1]) >= 1
    /\ response.toolResults[1][1].result.shape = "array"
    /\ response.toolResults[1][1].result.items = <<>>

\* strategy !== 'graph' && strategy !== 'hierarchical' && noResults
\*   && filter && Object.keys(filter).length > 0
FallbackNeeded(strategy, filter, response) ==
    /\ strategy \notin {"graph", "hierarchical"}
    /\ NoResultsFromFilteredSearch(response)
    /\ filter = "nonEmpty"

\* One agent.generate call: the tool chosen and the args sent.  filter is
\* the decision's filter, "absent" (no filter key), "summaryFilter" or
\* "chunkFilter" (with the file paths it selects).
Query(tool, queryText, filter, paths, sparse) ==
    [tool |-> tool, queryText |-> queryText, filter |-> filter, paths |-> paths,
     sparse |-> sparse]

FallbackQueryMutant(queryText, sparse) ==
    Query("vectorQueryTool", queryText, "absent", <<>>, None)

\* toolArgs = { queryText }; if (querySparseVector) toolArgs.querySparseVector = ...
FallbackQuery(queryText, sparse) ==
    Query("vectorQueryTool", queryText, "absent", <<>>, sparse)

\* summaries.slice(0, N).forEach(s => s.metadata?.source && paths.push(...))
RECURSIVE SourcesOf(_)
SourcesOf(items) ==
    IF items = <<>> THEN <<>>
    ELSE (IF Head(items).metaSource # "" THEN <<Head(items).metaSource>> ELSE <<>>)
         \o SourcesOf(Tail(items))

RECURSIVE TopSources(_)
TopSources(toolResults) ==
    IF toolResults = <<>> THEN <<>>
    ELSE (IF MatchesTool(Head(toolResults), "vectorQueryTool")
          THEN SourcesOf(Slice0(ResultItems(Head(toolResults).result),
                                HIERARCHICAL_TOP_N_SUMMARIES))
          ELSE <<>>)
         \o TopSources(Tail(toolResults))

\* topNFilePaths of a phase-A response
topNFilePaths(summaryResponse) ==
    IF summaryResponse.toolResults = None THEN <<>>
    ELSE TopSources(summaryResponse.toolResults[1])

NeedsChunkQueryMutant(paths) == TRUE

\* if (topNFilePaths.length > 0)
NeedsChunkQuery(paths) == Len(paths) > 0

\* The inputs of the step: what the retrieval decision schema accepts.
GcInputs ==
    {i \in [strategy : Strategies, filter : Filters,
            queryText : {"", "transformed query"},
            userQuery : {"user query"}] :
        retrievalDecisionSchema(i)}

GcIdle ==
    /\ gc_pc = "idle"
    /\ gc_input = [strategy |-> "basic", filter |-> "null", queryText |-> "",
                   userQuery |-> ""]
    /\ gc_mastra = "ok"
    /\ gc_hybrid = FALSE
    /\ gc_store = [first |-> Response(None, ""), second |-> Response(None, "")]
    /\ gc_sparse = None
    /\ gc_paths = None
    /\ gc_response = None
    /\ gc_calls = <<>>
    /\ gc_output = None
    /\ gc_thrown = None
    /\ gc_run = 0
    /\ gc_reads = 0
    /\ gc_load = None

GcInit ==
    /\ gc_pc = "start"
    /\ gc_input \in GcInputs
    /\ gc_mastra \in {"undefined", "noRetrievalAgent", "ok"}
    /\ gc_hybrid \in BOOLEAN
    /\ gc_store \in [first : Responses, second : Responses]
    /\ gc_sparse = None
    /\ gc_paths = None
    /\ gc_response = None
    /\ gc_calls = <<>>
    /\ gc_output = None
    /\ gc_thrown = None
    /\ gc_run = 1
    /\ gc_reads = 0
    /\ gc_load = None

\* The catch block of execute(): the message carries the strategy, which is
\* still undefined when the error precedes the destructuring.
GcCatch(strategy, error) ==
    /\ gc_thrown' = Some(WorkflowError(<<StagePrefix.getContext, strategy>>
                                           \o MessageOf(error),
                                       isRetryableError(error)))
    /\ gc_pc' = "failed"

\* From the fallback test to the return, for the response at hand.
GcFinish(response, toolName, calls, sparse) ==
    IF response = None
    THEN \* response.toolResults of undefined
         /\ GcCatch(gc_input.strategy,
                    PlainError(<<"Cannot read properties of undefined">>))
         /\ gc_calls' = calls
         /\ gc_response' = response
         /\ UNCHANGED gc_output
    ELSE IF FallbackNeeded(gc_input.strategy, gc_input.filter, response[1])
    THEN /\ gc_calls' = Append(calls, FallbackQuery(gc_input.queryText, sparse))
         /\ gc_response' = response
         /\ gc_pc' = "fallbackQuery"
         /\ UNCHANGED <<gc_output, gc_thrown>>
    ELSE /\ gc_output' = Some(FormatContext(response[1], toolName))
         /\ gc_calls' = calls
         /\ gc_response' = response
         /\ gc_pc' = "done"
         /\ UNCHANGED gc_thrown

\* The strategy dispatch, entered with querySparseVector settled.
GcDispatch(sparse) ==
    LET args == gc_input
    IN CASE args.strategy = "graph" ->
              \* toolName and toolArgs are set; no call is made and response
              \* is left undefined
              /\ GcFinish(None, "graphRAGTool", gc_calls, sparse)
              /\ UNCHANGED gc_paths
         [] args.strategy = "hierarchical" ->
              /\ gc_calls' = Append(gc_calls,
                                Query("vectorQueryTool", args.queryText, "summaryFilter",
                                      <<>>, sparse))
              /\ gc_pc' = "summaryQuery"
              /\ UNCHANGED <<gc_paths, gc_response, gc_output, gc_thrown>>
         [] OTHER ->
              /\ gc_calls' = Append(gc_calls,
                                Query("vectorQueryTool", args.queryText, args.filter,
                                      <<>>, sparse))
              /\ gc_pc' = "firstQuery"
              /\ UNCHANGED <<gc_paths, gc_response, gc_output, gc_thrown>>

\* execute() from its entry to its first await.
GcStart ==
    /\ gc_pc = "start"
    /\ IF gc_mastra = "undefined"
       THEN /\ GcCatch("undefined",
                       PlainError(<<"Mastra instance not available in step context.">>))
            /\ UNCHANGED <<gc_sparse, gc_paths, gc_response, gc_calls, gc_output>>
       ELSE IF gc_mastra = "noRetrievalAgent"
       THEN /\ GcCatch(gc_input.strategy, PlainError(<<"Agent not found.">>))
            /\ UNCHANGED <<gc_sparse, gc_paths, gc_response, gc_calls, gc_output>>
       ELSE IF gc_hybrid /\ gc_input.queryText # ""
       THEN /\ gc_pc' = "loadVocabulary"
            /\ UNCHANGED <<gc_sparse, gc_paths, gc_response, gc_calls, gc_output,
                           gc_thrown>>
       ELSE /\ gc_sparse' = None
            /\ GcDispatch(None)
    /\ UNCHANGED <<gc_input, gc_mastra, gc_hybrid, gc_store, gc_run, gc_reads, gc_load>>

\* How the sparse vector generation can end: with a vector; with undefined
\* because no query term is in the vocabulary; with loadVocabulary returning
\* undefined (it catches every error of its read and its parse); with
\* processQueryForSparseVector throwing.
LoadOutcomes == {"vector", "no vocabulary term", "no vocabulary", "throws"}

querySparseVectorOfMutant(outcome) == Some("keyword_sparse")

\* querySparseVector after the try block: assigned only when the vocabulary
\* was loaded and the generation returned; undefined as declared otherwise.
querySparseVectorOf(outcome) ==
    IF outcome = "vector" THEN Some("keyword_sparse") ELSE None

\* await loadVocabulary(env.VOCABULARY_FILE_PATH) settles and the try block
\* ends: the resource was read (or the read was attempted), and the step goes
\* on with or without a sparse vector.
GcVocabularyLoaded ==
    /\ gc_pc = "loadVocabulary"
    /\ \E outcome \in LoadOutcomes :
          /\ gc_load' = Some(outcome)
          /\ gc_sparse' = querySparseVectorOf(outcome)
          /\ GcDispatch(querySparseVectorOf(outcome))
    /\ gc_reads' = gc_reads + 1
    /\ UNCHANGED <<gc_input, gc_mastra, gc_hybrid, gc_store, gc_run>>

\* The single query of basic / metadata / documentation / example resolves.
GcFirstReturns ==
    /\ gc_pc = "firstQuery"
    /\ GcFinish(Some(gc_store.first), "vectorQueryTool", gc_calls, gc_sparse)
    /\ UNCHANGED <<gc_input, gc_mastra, gc_hybrid, gc_store, gc_sparse, gc_paths>>
    /\ UNCHANGED <<gc_run, gc_reads, gc_load>>

\* The unfiltered fallback query resolves: formatting follows, no further test.
GcFallbackReturns ==
    /\ gc_pc = "fallbackQuery"
    /\ gc_response' = Some(gc_store.second)
    /\ gc_output' = Some(FormatContext(gc_store.second, "vectorQueryTool"))
    /\ gc_pc' = "done"
    /\ UNCHANGED <<gc_input, gc_mastra, gc_hybrid, gc_store, gc_sparse, gc_paths,
                   gc_calls, gc_thrown>>
    /\ UNCHANGED <<gc_run, gc_reads, gc_load>>

\* Phase A of hierarchical resolves: the chunk query follows if it named a file.
GcSummaryReturns ==
    /\ gc_pc = "summaryQuery"
    /\ LET paths == topNFilePaths(gc_store.first)
       IN /\ gc_paths' = Some(paths)
          /\ IF NeedsChunkQuery(paths)
             THEN /\ gc_calls' = Append(gc_calls,
                                   Query("vectorQueryTool", gc_input.queryText,
                                         "chunkFilter", paths, gc_sparse))
                  /\ gc_pc' = "chunkQuery"
                  /\ UNCHANGED <<gc_response, gc_output, gc_thrown>>
             ELSE GcFinish(Some(VectorResult("array", <<>>)), "vectorQueryTool", gc_calls,
                           gc_sparse)
    /\ UNCHANGED <<gc_input, gc_mastra, gc_hybrid, gc_store, gc_sparse>>
    /\ UNCHANGED <<gc_run, gc_reads, gc_load>>

\* Phase B of hierarchical resolves: response is rebuilt around allChunks.
GcChunkReturns ==
    /\ gc_pc = "chunkQuery"
    /\ LET allChunks == IF gc_store.second.toolResults = None THEN <<>>
                        ELSE FlatItems(gc_store.second.toolResults[1], "vectorQueryTool")
       IN GcFinish(Some(VectorResult("array", allChunks)), "vectorQueryTool", gc_calls,
                   gc_sparse)
    /\ UNCHANGED <<gc_input, gc_mastra, gc_hybrid, gc_store, gc_sparse, gc_paths>>
    /\ UNCHANGED <<gc_run, gc_reads, gc_load>>

\* An agent.generate call rejects.
GcQueryThrows ==
    /\ gc_pc \in {"firstQuery", "fallbackQuery", "summaryQuery", "chunkQuery"}
    /\ \E e \in GcThrown : GcCatch(gc_input.strategy, e)
    /\ UNCHANGED <<gc_input, gc_mastra, gc_hybrid, gc_store, gc_sparse, gc_paths,
                   gc_response, gc_calls, gc_output>>
    /\ UNCHANGED <<gc_run, gc_reads, gc_load>>

\* The runs of the step the model follows in one process.
MaxRuns == 2

\* The workflow runs again in the same process: execute() is entered with a
\* new input and fresh locals; the environment, the Mastra instance and the
\* store are those of the process.
GcNextRun ==
    /\ gc_pc \in {"done", "failed"}
    /\ gc_run < MaxRuns
    /\ gc_run' = gc_run + 1
    /\ gc_input' \in GcInputs
    /\ gc_pc' = "start"
    /\ gc_sparse' = None
    /\ gc_paths' = None
    /\ gc_response' = None
    /\ gc_calls' = <<>>
    /\ gc_output' = None
    /\ gc_thrown' = None
    /\ gc_load' = None
    /\ UNCHANGED <<gc_mastra, gc_hybrid, gc_store, gc_reads>>

(***************************************************************************)
(* ragWorkflow: ragWorkflow.ts (the chain in use, lines 111-153), with     *)
(* transformQueryStep.ts and decideRetrievalStep.ts                        *)
(***************************************************************************)
QUERY_TRANSFORMER_AGENT_NAME == "queryTransformerAgent"
RETRIEVAL_ROUTER_AGENT_NAME == "retrievalRouterAgent"
RETRIEVAL_AGENT_NAME == "retrievalAgent"
CONTEXT_COMPRESSOR_AGENT_NAME == "contextCompressorAgent"
RAG_AGENT_NAME == "ragAgent"
EVALUATION_AGENT_NAME == "evaluationAgent"

\* env.QUERY_TRANSFORMATION_TYPE: choices 'none', 'rewrite', 'sub_queries'
TransformationTypes == {"none", "rewrite", "sub_queries"}

UserQueries == {"q1", "q2"}
\* response.object.rewrittenQuery: any string, the input query included
RewrittenQueries == {"q1", "r1"}
\* What the router's model answers before the output schema is applied.
RouterAnswers == [strategy : Strategies, filter : Filters]
\* What a call of the two modelled steps rejects with.
WfThrown ==
    {ErrorValue("Error", TRUE, 429, <<"boom">>, FALSE),
     ErrorValue("Error", FALSE, 0, <<"boom">>, FALSE)}
\* What getContext and compressContext return: an empty blob, a blank one
\* (getContext only), one with records.
RetrievedContexts == {"", " ", "context"}
CompressedContexts == {"", "compressed"}
\* response.text of the answer generation
Answers == {"answer", "another answer"}
\* What evaluateAndRetry returns after an evaluation.
Envelopes ==
    [finalAnswer : Answers \cup {"regenerated answer"},
     evaluationScore : {Some(8)}, isGrounded : {Some(TRUE), Some(FALSE)}]

StepIds == {"transformQuery", "decideRetrieval", "getContext", "compressContext",
            "generateResponse", "evaluateAndRetry"}

\* The agents the steps look up.
AgentNames ==
    {QUERY_TRANSFORMER_AGENT_NAME, RETRIEVAL_ROUTER_AGENT_NAME, RETRIEVAL_AGENT_NAME,
     CONTEXT_COMPRESSOR_AGENT_NAME, RAG_AGENT_NAME, EVALUATION_AGENT_NAME}

WfGetAgentMutant(mastra, name) == TRUE

\* mastra?.getAgent(name)
WfGetAgent(mastra, name) == mastra # None /\ name \in mastra[1]

\* .map({ ... }): the inputData of each step, from the workflow input
\* (initData) and the outputs of the steps before it.
MapInput(step, initData, results) ==
    CASE step = "transformQuery" ->
            [userQuery |-> initData.userQuery]
      [] step = "decideRetrieval" ->
            [userQuery |-> results.transformQuery[1].transformedQuery]
      [] step = "getContext" ->
            [userQuery |-> initData.userQuery,
             queryText |-> results.transformQuery[1].transformedQuery,
             decision |-> results.decideRetrieval[1]]
      [] step = "compressContext" ->
            [userQuery |-> results.transformQuery[1].transformedQuery,
             relevantContext |-> results.getContext[1].relevantContext]
      [] step = "generateResponse" ->
            [userQuery |-> results.transformQuery[1].transformedQuery,
             relevantContext |-> results.compressContext[1].finalCompressedContext]
      [] step = "evaluateAndRetry" ->
            [userQuery |-> results.transformQuery[1].transformedQuery,
             relevantContext |-> results.compressContext[1].finalCompressedContext,
             generatedAnswer |-> results.generateResponse[1].answer]

\* The inputData of the step the run is at.
WfInput(step) == MapInput(step, wf_initData, wf_results)

StepStarted(step, input) == [step |-> step, input |-> input]
AgentCall(agent, prompt) == [agent |-> agent, prompt |-> prompt]

WfIdle ==
    /\ wf_pc = "idle"
    /\ wf_initData = [userQuery |-> ""]
    /\ wf_mode = "none"
    /\ wf_compression = FALSE
    /\ wf_mastra = None
    /\ wf_results = [s \in StepIds |-> None]
    /\ wf_inputs = <<>>
    /\ wf_lookups = <<>>
    /\ wf_calls = <<>>
    /\ wf_thrown = None

WfInit ==
    /\ wf_pc = "transformQuery"
    /\ wf_initData \in [userQuery : UserQueries]
    /\ wf_mode \in TransformationTypes
    /\ wf_compression \in BOOLEAN
    /\ wf_mastra \in {None, Some(AgentNames)}
                       \cup {Some(AgentNames \ {agent}) : agent \in AgentNames}
    /\ wf_results = [s \in StepIds |-> None]
    /\ wf_inputs = <<>>
    /\ wf_lookups = <<>>
    /\ wf_calls = <<>>
    /\ wf_thrown = None

\* A step returned: .then(step) stores its output and the run moves on.
WfStepReturns(step, output, next) ==
    /\ wf_results' = [wf_results EXCEPT ![step] = Some(output)]
    /\ wf_pc' = next
    /\ UNCHANGED wf_thrown

WfStepThrowsMutant(error) ==
    /\ wf_thrown' = Some(error)
    /\ wf_pc' = "done"
    /\ UNCHANGED wf_results

\* A step threw: the run ends with that error.
WfStepThrows(error) ==
    /\ wf_thrown' = Some(error)
    /\ wf_pc' = "failed"
    /\ UNCHANGED wf_results

\* The prompt transformQuery builds.
TransformPrompt(userQuery, type) ==
    <<"User Query: ", userQuery, "\nTransformation Type: ", type>>

TransformDisabledMutant(type) == FALSE

\* env.QUERY_TRANSFORMATION_TYPE === 'none'
TransformDisabled(type) == type = "none"

\* transformQueryStep.execute up to its await.
WfTransformQuery ==
    /\ wf_pc = "transformQuery"
    /\ LET inputData == WfInput("transformQuery")
       IN /\ wf_inputs' = Append(wf_inputs, StepStarted("transformQuery", inputData))
          /\ IF TransformDisabled(wf_mode)
             THEN /\ WfStepReturns("transformQuery",
                                   [transformedQuery |-> inputData.userQuery],
                                   "decideRetrieval")
                  /\ UNCHANGED <<wf_lookups, wf_calls>>
             ELSE /\ wf_lookups' = Append(wf_lookups, QUERY_TRANSFORMER_AGENT_NAME)
                  /\ IF ~WfGetAgent(wf_mastra, QUERY_TRANSFORMER_AGENT_NAME)
                     THEN /\ WfStepThrows(Rethrow(StagePrefix.transformQuery,
                                  PlainError(<<"Agent 'queryTransformerAgent' not found.">>)))
                          /\ UNCHANGED wf_calls
                     ELSE /\ wf_calls' = Append(wf_calls,
                                  AgentCall(QUERY_TRANSFORMER_AGENT_NAME,
                                            TransformPrompt(inputData.userQuery, wf_mode)))
                          /\ wf_pc' = "transforming"
                          /\ UNCHANGED <<wf_results, wf_thrown>>
    /\ UNCHANGED <<wf_initData, wf_mode, wf_compression, wf_mastra>>

\* The transformer call resolves: return { transformedQuery: rewrittenQuery }.
WfTransformReturns ==
    /\ wf_pc = "transforming"
    /\ \E rewrittenQuery \in RewrittenQueries :
          WfStepReturns("transformQuery", [transformedQuery |-> rewrittenQuery],
                        "decideRetrieval")
    /\ UNCHANGED <<wf_initData, wf_mode, wf_compression, wf_mastra, wf_inputs, wf_lookups, wf_calls>>

\* The transformer call rejects: the catch of transformQueryStep.
WfTransformThrows ==
    /\ wf_pc = "transforming"
    /\ \E e \in WfThrown : WfStepThrows(Rethrow(StagePrefix.transformQuery, e))
    /\ UNCHANGED <<wf_initData, wf_mode, wf_compression, wf_mastra, wf_inputs, wf_lookups, wf_calls>>

\* decideRetrievalStep.execute up to its await.
WfDecideRetrieval ==
    /\ wf_pc = "decideRetrieval"
    /\ LET inputData == WfInput("decideRetrieval")
       IN /\ wf_inputs' = Append(wf_inputs, StepStarted("decideRetrieval", inputData))
          /\ wf_lookups' = Append(wf_lookups, RETRIEVAL_ROUTER_AGENT_NAME)
          /\ IF ~WfGetAgent(wf_mastra, RETRIEVAL_ROUTER_AGENT_NAME)
             THEN /\ WfStepThrows(Rethrow(StagePrefix.decideRetrieval,
                          PlainError(<<"RetrievalRouterAgent not found in Mastra instance.">>)))
                  /\ UNCHANGED wf_calls
             ELSE /\ wf_calls' = Append(wf_calls,
                          AgentCall(RETRIEVAL_ROUTER_AGENT_NAME, <<inputData.userQuery>>))
                  /\ wf_pc' = "deciding"
                  /\ UNCHANGED <<wf_results, wf_thrown>>
    /\ UNCHANGED <<wf_initData, wf_mode, wf_compression, wf_mastra>>

\* The router call resolves with an object that satisfies the output schema
\* it was given (output: retrievalDecisionSchema): return response.object.
WfDecideReturns ==
    /\ wf_pc = "deciding"
    /\ \E answer \in RouterAnswers :
          /\ retrievalDecisionSchema(answer)
          /\ WfStepReturns("decideRetrieval", answer, "getContext")
    /\ UNCHANGED <<wf_initData, wf_mode, wf_compression, wf_mastra, wf_inputs, wf_lookups, wf_calls>>

\* The router call rejects, also when the model's answer does not satisfy the
\* output schema: the catch of decideRetrievalStep.
WfDecideThrows ==
    /\ wf_pc = "deciding"
    /\ \/ \E e \in WfThrown : WfStepThrows(Rethrow(StagePrefix.decideRetrieval, e))
       \/ \E answer \in RouterAnswers :
             /\ ~retrievalDecisionSchema(answer)
             /\ WfStepThrows(Rethrow(StagePrefix.decideRetrieval,
                     PlainError(<<"Filter must be null for graph/basic strategies.">>)))
    /\ UNCHANGED <<wf_initData, wf_mode, wf_compression, wf_mastra, wf_inputs, wf_lookups, wf_calls>>

\* The catch block of getContextStep: the message carries the strategy.
WfGetContextCatch(strategy, error) ==
    WfStepThrows(WorkflowError(<<StagePrefix.getContext, strategy>> \o MessageOf(error),
                               isRetryableError(error)))

\* getContextStep.execute up to its first retrieval call.
WfGetContext ==
    /\ wf_pc = "getContext"
    /\ LET inputData == WfInput("getContext")
       IN /\ wf_inputs' = Append(wf_inputs, StepStarted("getContext", inputData))
          /\ IF wf_mastra = None
             THEN /\ WfGetContextCatch("undefined",
                        PlainError(<<"Mastra instance not available in step context.">>))
                  /\ UNCHANGED <<wf_lookups, wf_calls>>
             ELSE /\ wf_lookups' = Append(wf_lookups, RETRIEVAL_AGENT_NAME)
                  /\ IF ~WfGetAgent(wf_mastra, RETRIEVAL_AGENT_NAME)
                     THEN /\ WfGetContextCatch(inputData.decision.strategy,
                                PlainError(<<"Agent 'retrievalAgent' not found.">>))
                          /\ UNCHANGED wf_calls
                     ELSE IF inputData.decision.strategy = "graph"
                     THEN \* no call is made and response is read while undefined
                          /\ WfGetContextCatch("graph",
                                PlainError(<<"Cannot read properties of undefined">>))
                          /\ UNCHANGED wf_calls
                     ELSE /\ wf_calls' = Append(wf_calls,
                                  AgentCall(RETRIEVAL_AGENT_NAME, <<inputData.queryText>>))
                          /\ wf_pc' = "retrieving"
                          /\ UNCHANGED <<wf_results, wf_thrown>>
    /\ UNCHANGED <<wf_initData, wf_mode, wf_compression, wf_mastra>>

\* The retrieval of getContext is over: return { relevantContext }.
WfGetContextReturns ==
    /\ wf_pc = "retrieving"
    /\ \E relevantContext \in RetrievedContexts :
          WfStepReturns("getContext", [relevantContext |-> relevantContext],
                        "compressContext")
    /\ UNCHANGED <<wf_initData, wf_mode, wf_compression, wf_mastra, wf_inputs,
                   wf_lookups, wf_calls>>

\* A retrieval call rejects: the catch of getContextStep.
WfGetContextThrows ==
    /\ wf_pc = "retrieving"
    /\ \E e \in WfThrown :
          WfGetContextCatch(WfInput("getContext").decision.strategy, e)
    /\ UNCHANGED <<wf_initData, wf_mode, wf_compression, wf_mastra, wf_inputs,
                   wf_lookups, wf_calls>>

WfBlankMutant(relevantContext) == relevantContext = ""

\* !relevantContext || !relevantContext.trim()
WfBlank(relevantContext) == relevantContext \in {"", " "}

\* compressContextStep.execute up to its first extraction call.  A blob that
\* is not blank has records to compress or parses to none.
WfCompressContext ==
    /\ wf_pc = "compressContext"
    /\ LET inputData == WfInput("compressContext")
       IN /\ wf_inputs' = Append(wf_inputs, StepStarted("compressContext", inputData))
          /\ IF ~wf_compression
             THEN /\ WfStepReturns("compressContext",
                        [finalCompressedContext |-> inputData.relevantContext],
                        "generateResponse")
                  /\ UNCHANGED <<wf_lookups, wf_calls>>
             ELSE IF WfBlank(inputData.relevantContext)
             THEN /\ WfStepReturns("compressContext", [finalCompressedContext |-> ""],
                                   "generateResponse")
                  /\ UNCHANGED <<wf_lookups, wf_calls>>
             ELSE /\ wf_lookups' = Append(wf_lookups, CONTEXT_COMPRESSOR_AGENT_NAME)
                  /\ IF ~WfGetAgent(wf_mastra, CONTEXT_COMPRESSOR_AGENT_NAME)
                     THEN /\ WfStepThrows(Rethrow(StagePrefix.compressContext,
                                PlainError(<<"Agent 'contextCompressorAgent' not found.">>)))
                          /\ UNCHANGED wf_calls
                     ELSE \/ /\ WfStepReturns("compressContext",
                                   [finalCompressedContext |-> inputData.relevantContext],
                                   "generateResponse")
                             /\ UNCHANGED wf_calls
                          \/ /\ wf_calls' = Append(wf_calls,
                                    AgentCall(CONTEXT_COMPRESSOR_AGENT_NAME,
                                              <<inputData.userQuery,
                                                inputData.relevantContext>>))
                             /\ wf_pc' = "compressing"
                             /\ UNCHANGED <<wf_results, wf_thrown>>
    /\ UNCHANGED <<wf_initData, wf_mode, wf_compression, wf_mastra>>

\* The extraction loop is over (a rejected extraction is skipped):
\* return { finalCompressedContext }.
WfCompressReturns ==
    /\ wf_pc = "compressing"
    /\ \E finalCompressedContext \in CompressedContexts :
          WfStepReturns("compressContext",
                        [finalCompressedContext |-> finalCompressedContext],
                        "generateResponse")
    /\ UNCHANGED <<wf_initData, wf_mode, wf_compression, wf_mastra, wf_inputs,
                   wf_lookups, wf_calls>>

\* The prompt generateResponse builds.
GeneratePrompt(userQuery, relevantContext) ==
    <<"User Query: ", userQuery, "\n\nContext:\n", relevantContext, "\n\nAnswer:">>

\* generateResponseStep.execute up to its await.
WfGenerateResponse ==
    /\ wf_pc = "generateResponse"
    /\ LET inputData == WfInput("generateResponse")
       IN /\ wf_inputs' = Append(wf_inputs, StepStarted("generateResponse", inputData))
          /\ wf_lookups' = Append(wf_lookups, RAG_AGENT_NAME)
          /\ IF ~WfGetAgent(wf_mastra, RAG_AGENT_NAME)
             THEN /\ WfStepThrows(Rethrow(StagePrefix.generateResponse,
                        PlainError(<<"RagAgent not found in Mastra instance.">>)))
                  /\ UNCHANGED wf_calls
             ELSE /\ wf_calls' = Append(wf_calls,
                        AgentCall(RAG_AGENT_NAME,
                                  GeneratePrompt(inputData.userQuery,
                                                 inputData.relevantContext)))
                  /\ wf_pc' = "generating"
                  /\ UNCHANGED <<wf_results, wf_thrown>>
    /\ UNCHANGED <<wf_initData, wf_mode, wf_compression, wf_mastra>>

\* The generation call resolves: return { answer: response.text }.
WfGenerateReturns ==
    /\ wf_pc = "generating"
    /\ \E answer \in Answers :
          WfStepReturns("generateResponse", [answer |-> answer], "evaluateAndRetry")
    /\ UNCHANGED <<wf_initData, wf_mode, wf_compression, wf_mastra, wf_inputs,
                   wf_lookups, wf_calls>>

\* The generation call rejects: the catch of generateResponseStep.
WfGenerateThrows ==
    /\ wf_pc = "generating"
    /\ \E e \in WfThrown : WfStepThrows(Rethrow(StagePrefix.generateResponse, e))
    /\ UNCHANGED <<wf_initData, wf_mode, wf_compression, wf_mastra, wf_inputs,
                   wf_lookups, wf_calls>>

\* return { finalAnswer: "No relevant context found to generate an answer." }
NoContextEnvelope ==
    [finalAnswer |-> "No relevant context found to generate an answer.",
     evaluationScore |-> None, isGrounded |-> None]

\* evaluateAndRetryStep.execute up to the judge call of the first evaluation.
WfEvaluateAndRetry ==
    /\ wf_pc = "evaluateAndRetry"
    /\ LET inputData == WfInput("evaluateAndRetry")
       IN /\ wf_inputs' = Append(wf_inputs, StepStarted("evaluateAndRetry", inputData))
          /\ IF WfBlank(inputData.relevantContext)
             THEN /\ WfStepReturns("evaluateAndRetry", NoContextEnvelope, "done")
                  /\ UNCHANGED <<wf_lookups, wf_calls>>
             ELSE IF ~WfGetAgent(wf_mastra, RAG_AGENT_NAME)
             THEN \* thrown before the try block: it leaves the step as it is
                  /\ wf_lookups' = Append(wf_lookups, RAG_AGENT_NAME)
                  /\ WfStepThrows(PlainError(<<"RagAgent not found in Mastra instance.">>))
                  /\ UNCHANGED wf_calls
             ELSE /\ wf_lookups' = wf_lookups \o <<RAG_AGENT_NAME, EVALUATION_AGENT_NAME>>
                  /\ IF ~WfGetAgent(wf_mastra, EVALUATION_AGENT_NAME)
                     THEN /\ WfStepThrows(Rethrow(StagePrefix.evaluateAndRetry,
                                PlainError(<<"EvaluationAgent not found in Mastra instance.">>)))
                          /\ UNCHANGED wf_calls
                     ELSE /\ wf_calls' = Append(wf_calls,
                                  AgentCall(EVALUATION_AGENT_NAME,
                                            <<inputData.userQuery,
                                              inputData.relevantContext,
                                              inputData.generatedAnswer>>))
                          /\ wf_pc' = "evaluating"
                          /\ UNCHANGED <<wf_results, wf_thrown>>
    /\ UNCHANGED <<wf_initData, wf_mode, wf_compression, wf_mastra>>

\* The evaluation, with or without its one regeneration, is over: the
\* envelope of the answer evaluated last is returned.
WfEvaluateReturns ==
    /\ wf_pc = "evaluating"
    /\ \E envelope \in Envelopes :
          /\ envelope.finalAnswer \in
                {WfInput("evaluateAndRetry").generatedAnswer, "regenerated answer"}
          /\ WfStepReturns("evaluateAndRetry", envelope, "done")
    /\ UNCHANGED <<wf_initData, wf_mode, wf_compression, wf_mastra, wf_inputs,
                   wf_lookups, wf_calls>>

\* A call of the evaluation rejects: the catch of evaluateAnswer, then the
\* catch of execute.
WfEvaluateThrows ==
    /\ wf_pc = "evaluating"
    /\ \E e \in WfThrown :
          WfStepThrows(Rethrow(StagePrefix.evaluateAndRetry, Rethrow(EvaluatePrefix, e)))
    /\ UNCHANGED <<wf_initData, wf_mode, wf_compression, wf_mastra, wf_inputs,
                   wf_lookups, wf_calls>>

(***************************************************************************)
(* Context records: the record template of getContextStep.ts (lines        *)
(* 225-231) and parseContextSnippets of compressContextStep.ts (9-17).     *)
(* A blob is a sequence of tokens: "File: ", "\n", "<fence>" (the three    *)
(* backquotes of a fenced block), "---", " " and the other characters.     *)
(***************************************************************************)
\* Most records in a blob.
MaxSnippets == 2

Fence == "<fence>"
\* "\n<fence>\n", between the path and the content of a record
HeaderSeparator == <<"\n", Fence, "\n">>
\* "\n<fence>\n---", after the content of a record
RecordTerminator == <<"\n", Fence, "\n", "---">>

Snippet(filePath, content) == [filePath |-> filePath, content |-> content]

\* The file paths and contents of the records of the model: empty, plain,
\* padded with white space, holding a separator or a terminator.
SnippetPaths == {<<>>, <<"p">>, <<" ", "q">>, <<"p", "\n", Fence>>}
SnippetContents ==
    {<<>>, <<"x">>, <<" ", "x", "\n">>, <<Fence, "\n", "x">>,
     <<"x", "\n", Fence, "\n", "---">>}
Snippets == {Snippet(p, c) : p \in SnippetPaths, c \in SnippetContents}

\* const filePath = item.source || ... || 'unknown file';
\* const content = item.text || item.content || '';
\* the record "File: <filePath>\n<fence>\n<content>\n<fence>\n---\n"
FormatRecord(snippet) ==
    <<"File: ">>
        \o (IF snippet.filePath = <<>> THEN <<"unknown file">> ELSE snippet.filePath)
        \o HeaderSeparator \o snippet.content \o RecordTerminator \o <<"\n">>

\* allContextItems.map(...).join('')
RECURSIVE FormatRecords(_)
FormatRecords(snippets) ==
    IF snippets = <<>> THEN <<>>
    ELSE FormatRecord(Head(snippets)) \o FormatRecords(Tail(snippets))

\* The pattern occurs in s at position i.
OccursAt(s, pattern, i) ==
    /\ i >= 1
    /\ i + Len(pattern) - 1 <= Len(s)
    /\ \A k \in 1..Len(pattern) : s[i + k - 1] = pattern[k]

Min(S) == CHOOSE x \in S : \A y \in S : x <= y

\* Where, in a match that starts at position i, the header separator may
\* stand: after it the terminator must still be found.
SeparatorsAfter(s, i) ==
    {a \in (i + 1)..Len(s) :
        /\ OccursAt(s, HeaderSeparator, a)
        /\ \E b \in (a + 3)..Len(s) : OccursAt(s, RecordTerminator, b)}

\* snippetRegex.exec from lastIndex: /File: (.*?)\n<fence>\n(.*?)\n<fence>\n---/gs.
\* The leftmost start that can be completed; the first group as short as a
\* completion allows, then the second group as short as possible.
RegexExec(s, lastIndex) ==
    LET starts == {i \in lastIndex..Len(s) :
                      s[i] = "File: " /\ SeparatorsAfter(s, i) # {}}
    IN IF starts = {} THEN None
       ELSE LET i == Min(starts)
                a == Min(SeparatorsAfter(s, i))
                b == Min({k \in (a + 3)..Len(s) : OccursAt(s, RecordTerminator, k)})
            IN Some([group1 |-> SubSeq(s, i + 1, a - 1),
                     group2 |-> SubSeq(s, a + 3, b - 1),
                     lastIndex |-> b + 4])

SnippetOfMatchMutant(match) == Snippet(match.group1, match.group2)

\* snippets.push({ filePath: match[1].trim(), content: match[2].trim() })
SnippetOfMatch(match) == Snippet(Trim(match.group1), Trim(match.group2))

RECURSIVE ParseFrom(_, _)
ParseFrom(s, lastIndex) ==
    LET match == RegexExec(s, lastIndex)
    IN IF match = None THEN <<>>
       ELSE <<SnippetOfMatch(match[1])>> \o ParseFrom(s, match[1].lastIndex)

parseContextSnippets(contextString) == ParseFrom(contextString, 1)

RtIdle ==
    /\ rt_pc = "idle"
    /\ rt_snippets = <<>>
    /\ rt_blob = <<>>
    /\ rt_parsed = <<>>

RtInit ==
    /\ rt_pc = "start"
    /\ rt_snippets \in StringsUpTo(Snippets, MaxSnippets)
    /\ rt_blob = <<>>
    /\ rt_parsed = <<>>

\* The retriever formats the records into the blob.
RtFormat ==
    /\ rt_pc = "start"
    /\ rt_blob' = FormatRecords(rt_snippets)
    /\ rt_pc' = "formatted"
    /\ UNCHANGED <<rt_snippets, rt_parsed>>

\* The compressor parses the blob back into snippets.
RtParse ==
    /\ rt_pc = "formatted"
    /\ rt_parsed' = parseContextSnippets(rt_blob)
    /\ rt_pc' = "parsed"
    /\ UNCHANGED <<rt_snippets, rt_blob>>

(***************************************************************************)
(* compressContext: compressContextStep.ts                                 *)
(***************************************************************************)

\* The blobs compressContext is given: blobs of records the retriever
\* formatted, a blob of white space and a raw text that holds no record.
CcSnippets == {Snippet(p, c) : p \in {<<"p">>, <<"q">>}, c \in {<<"x">>, <<" ", "x">>}}
CcBlobs ==
    {FormatRecords(snippets) : snippets \in StringsUpTo(CcSnippets, MaxSnippets)}
        \cup {<<" ">>, <<"raw text">>}
\* response.object.compressedSnippet
Extractions == {<<>>, <<" ">>, <<"y", " ">>}
CcThrown == {ErrorValue("Error", FALSE, 0, <<"boom">>, FALSE)}

\* The prompt of one extraction call.
ExtractionPrompt(userQuery, snippet) ==
    [userQuery |-> userQuery, filePath |-> snippet.filePath, content |-> snippet.content]

\* How an extraction call ended: resolved with an extraction, or rejected.
Outcome(snippet, extraction) == [snippet |-> snippet, extraction |-> extraction]

\* The record "File: <filePath>\n<fence>\n<compressedSnippet.trim()>\n<fence>\n---"
CompressedRecord(filePath, compressedSnippet) ==
    <<"File: ">> \o filePath \o HeaderSeparator \o Trim(compressedSnippet)
        \o RecordTerminator

\* compressedSnippets.join('')
RECURSIVE Join(_)
Join(strings) == IF strings = <<>> THEN <<>> ELSE Head(strings) \o Join(Tail(strings))

CompressionDisabledMutant(enabled) == FALSE

\* !env.CONTEXTUAL_COMPRESSION_ENABLED
CompressionDisabled(enabled) == ~enabled

\* !relevantContext || relevantContext.trim() === ""
NoContextToCompress(relevantContext) ==
    relevantContext = <<>> \/ Trim(relevantContext) = <<>>

CcIdle ==
    /\ cc_pc = "idle"
    /\ cc_enabled = FALSE
    /\ cc_input = [userQuery |-> "", relevantContext |-> <<>>]
    /\ cc_mastra = None
    /\ cc_snippets = <<>>
    /\ cc_next = 0
    /\ cc_compressedSnippets = <<>>
    /\ cc_calls = <<>>
    /\ cc_outcomes = <<>>
    /\ cc_output = None
    /\ cc_thrown = None

CcInit ==
    /\ cc_pc = "start"
    /\ cc_enabled \in BOOLEAN
    /\ cc_input \in [userQuery : {"q1"}, relevantContext : CcBlobs]
    /\ cc_mastra \in {None, Some({}), Some({CONTEXT_COMPRESSOR_AGENT_NAME})}
    /\ cc_snippets = <<>>
    /\ cc_next = 0
    /\ cc_compressedSnippets = <<>>
    /\ cc_calls = <<>>
    /\ cc_outcomes = <<>>
    /\ cc_output = None
    /\ cc_thrown = None

\* return { finalCompressedContext }
CcReturn(finalCompressedContext) ==
    /\ cc_output' = Some(finalCompressedContext)
    /\ cc_pc' = "done"
    /\ UNCHANGED cc_thrown

\* The catch block of execute().
CcCatch(error) ==
    /\ cc_thrown' = Some(Rethrow(StagePrefix.compressContext, error))
    /\ cc_pc' = "failed"
    /\ UNCHANGED cc_output

\* The head of the for loop: the extraction call for the snippet at index,
\* or, past the last snippet, the join and the return.
CcLoop(snippets, index, compressedSnippets) ==
    IF index <= Len(snippets)
    THEN /\ cc_calls' = Append(cc_calls,
                                ExtractionPrompt(cc_input.userQuery, snippets[index]))
         /\ cc_next' = index
         /\ cc_pc' = "compressing"
         /\ UNCHANGED <<cc_output, cc_thrown>>
    ELSE /\ CcReturn(Join(compressedSnippets))
         /\ UNCHANGED <<cc_calls, cc_next>>

\* execute() from its entry to its first await.
CcStart ==
    /\ cc_pc = "start"
    /\ IF CompressionDisabled(cc_enabled)
       THEN /\ CcReturn(cc_input.relevantContext)
            /\ UNCHANGED <<cc_snippets, cc_next, cc_calls>>
       ELSE IF NoContextToCompress(cc_input.relevantContext)
       THEN /\ CcReturn(<<>>)
            /\ UNCHANGED <<cc_snippets, cc_next, cc_calls>>
       ELSE IF ~WfGetAgent(cc_mastra, CONTEXT_COMPRESSOR_AGENT_NAME)
       THEN /\ CcCatch(PlainError(<<"Agent 'contextCompressorAgent' not found.">>))
            /\ UNCHANGED <<cc_snippets, cc_next, cc_calls>>
       ELSE LET snippets == parseContextSnippets(cc_input.relevantContext)
            IN IF snippets = <<>>
               THEN /\ CcReturn(cc_input.relevantContext)
                    /\ UNCHANGED <<cc_snippets, cc_next, cc_calls>>
               ELSE /\ cc_snippets' = snippets
                    /\ CcLoop(snippets, 1, <<>>)
    /\ UNCHANGED <<cc_enabled, cc_input, cc_mastra, cc_compressedSnippets, cc_outcomes>>

KeepsExtractionMutant(compressedSnippet) == compressedSnippet # <<>>

\* response.object.compressedSnippet.trim() !== ""
KeepsExtraction(compressedSnippet) == Trim(compressedSnippet) # <<>>

\* An extraction call resolves: the snippet is kept if its extraction is not
\* blank, and the loop goes on.
CcSnippetReturns ==
    /\ cc_pc = "compressing"
    /\ \E compressedSnippet \in Extractions :
          LET snippet == cc_snippets[cc_next]
              compressedSnippets ==
                  IF KeepsExtraction(compressedSnippet)
                  THEN Append(cc_compressedSnippets,
                              CompressedRecord(snippet.filePath, compressedSnippet))
                  ELSE cc_compressedSnippets
          IN /\ cc_compressedSnippets' = compressedSnippets
             /\ cc_outcomes' = Append(cc_outcomes, Outcome(snippet, Some(compressedSnippet)))
             /\ CcLoop(cc_snippets, cc_next + 1, compressedSnippets)
    /\ UNCHANGED <<cc_enabled, cc_input, cc_mastra, cc_snippets>>

CcSnippetThrowsMutant ==
    /\ cc_pc = "compressing"
    /\ \E compressionError \in CcThrown :
          /\ cc_outcomes' = Append(cc_outcomes, Outcome(cc_snippets[cc_next], None))
          /\ CcCatch(compressionError)
    /\ UNCHANGED <<cc_enabled, cc_input, cc_mastra, cc_snippets, cc_next,
                   cc_compressedSnippets, cc_calls>>

\* An extraction call rejects: the inner catch warns, the snippet is skipped
\* and the loop goes on.
CcSnippetThrows ==
    /\ cc_pc = "compressing"
    /\ \E compressionError \in CcThrown :
          cc_outcomes' = Append(cc_outcomes, Outcome(cc_snippets[cc_next], None))
    /\ CcLoop(cc_snippets, cc_next + 1, cc_compressedSnippets)
    /\ UNCHANGED <<cc_enabled, cc_input, cc_mastra, cc_snippets, cc_compressedSnippets>>

(***************************************************************************)
(* QdrantFilterTranslator: qdrantFilter.ts                                 *)
(*                                                                         *)
(* A JavaScript value is a record tagged by its type.  An object is the    *)
(* sequence of its entries <<key, value>> in insertion order, the order    *)
(* Object.entries gives.  A string is a sequence of tokens: a field name   *)
(* is one token, a regex pattern has one token per character.  A throw is  *)
(* a value of its own that every caller passes on.                         *)
(***************************************************************************)
Undefined == [t |-> "undefined"]
Null == [t |-> "null"]
Num(n) == [t |-> "number", n |-> n]
Bool(b) == [t |-> "boolean", b |-> b]
Str(tokens) == [t |-> "string", tokens |-> tokens]
Arr(items) == [t |-> "array", items |-> items]
Obj(entries) == [t |-> "object", entries |-> entries]
Throw(message, operand) == [t |-> "throw", message |-> message, operand |-> operand]

IsThrow(v) == v.t = "throw"
IsObject(v) == v.t = "object"
Keys(obj) == [i \in 1..Len(obj.entries) |-> obj.entries[i][1]]
HasKey(obj, key) == \E i \in 1..Len(obj.entries) : obj.entries[i][1] = key
Get(obj, key) == obj.entries[CHOOSE i \in 1..Len(obj.entries) : obj.entries[i][1] = key][2]

\* The first throw among the values, if there is one.
FirstThrow(values) ==
    IF \E i \in 1..Len(values) : IsThrow(values[i])
    THEN Some(values[CHOOSE i \in 1..Len(values) :
                        /\ IsThrow(values[i])
                        /\ \A j \in 1..(i - 1) : ~IsThrow(values[j])])
    ELSE None

\* JavaScript truthiness of the values of the model.
Truthy(v) ==
    CASE v.t \in {"undefined", "null"} -> FALSE
      [] v.t = "boolean" -> v.b
      [] v.t = "number" -> v.n # 0
      [] v.t = "string" -> v.tokens # <<>>
      [] OTHER -> TRUE

\* BaseFilterTranslator.DEFAULT_OPERATORS: the operator table of the base
\* translator.
DEFAULT_OPERATORS ==
    [logical |-> {"$and", "$or", "$not", "$nor"},
     basic |-> {"$eq", "$ne"},
     numeric |-> {"$gt", "$gte", "$lt", "$lte"},
     array |-> {"$in", "$nin", "$all", "$elemMatch"},
     element |-> {"$exists"},
     regex |-> {"$regex", "$options"},
     custom |-> {}]

\* getSupportedOperators(): the base table with logical, array, regex and
\* custom replaced.
getSupportedOperators ==
    [DEFAULT_OPERATORS EXCEPT
        !.logical = {"$and", "$or", "$not"},
        !.array = {"$in", "$nin"},
        !.regex = {"$regex"},
        !.custom = {"$count", "$geo", "$nested", "$datetime", "$null", "$empty",
                    "$hasId", "$hasVector"}]

\* Every operator of the supported table.
SupportedOperators == UNION {getSupportedOperators[group] : group \in DOMAIN getSupportedOperators}

\* The keys of the model that start with "$".
DollarKeys == SupportedOperators \cup DEFAULT_OPERATORS.logical \cup {"$bogus"}

\* isOperator(key): the key starts with "$".
isOperator(key) == key \in DollarKeys

\* isCustomOperator(key): the key is in the custom group of the table.
isCustomOperator(key) == key \in getSupportedOperators.custom

\* isLogicalOperator(key): super.isLogicalOperator(key) || "$hasId" || "$hasVector"
isLogicalOperator(key) ==
    key \in DEFAULT_OPERATORS.logical \/ key = "$hasId" \/ key = "$hasVector"

\* isPrimitive(value): null, undefined, a string, a number or a boolean.
isPrimitive(v) == v.t \in {"null", "undefined", "string", "number", "boolean"}

\* isEmpty(obj): null, undefined, or an object (an array too) without keys.
isEmpty(v) ==
    \/ v.t \in {"null", "undefined"}
    \/ v.t = "object" /\ v.entries = <<>>
    \/ v.t = "array" /\ v.items = <<>>

\* normalizeComparisonValue(value): a Date becomes its ISO string and -0
\* becomes 0; the model has neither, and every other value is kept.
normalizeComparisonValue(v) == v
normalizeArrayValues(values) ==
    Arr([i \in 1..Len(values.items) |-> normalizeComparisonValue(values.items[i])])

\* validateFilter(filter): the operators of the filter, at any depth, that
\* are not in the supported table; validation throws when there is one.
RECURSIVE UnsupportedOperators(_)
UnsupportedOperators(node) ==
    CASE node.t = "array" ->
            UNION {UnsupportedOperators(node.items[i]) : i \in 1..Len(node.items)}
      [] node.t = "object" ->
            UNION {(IF isOperator(node.entries[i][1])
                        /\ node.entries[i][1] \notin SupportedOperators
                    THEN {node.entries[i][1]}
                    ELSE UnsupportedOperators(node.entries[i][2]))
                   : i \in 1..Len(node.entries)}
      [] OTHER -> {}

validateFilter(filter) ==
    IF UnsupportedOperators(filter) # {}
    THEN Some(Throw("Unsupported operator", CHOOSE op \in UnsupportedOperators(filter) : TRUE))
    ELSE None

\* The regex metacharacters sanitizeRegex escapes: - / \ ^ $ * + ? . ( ) | [ ] { }
RegexMetacharacters ==
    {"-", "/", "\\", "^", "$", "*", "+", "?", ".", "(", ")", "|", "[", "]", "{", "}"}

\* pattern.replace(/[-\/\\^$*+?.()|[\]{}]/g, "\\$&")
RECURSIVE sanitizeRegex(_)
sanitizeRegex(pattern) ==
    IF pattern = <<>> THEN <<>>
    ELSE (IF Head(pattern) \in RegexMetacharacters
          THEN <<"\\", Head(pattern)>> ELSE <<Head(pattern)>>)
            \o sanitizeRegex(Tail(pattern))

\* fieldKey as the value of a "key" property.
KeyOf(fieldKey) == IF fieldKey = None THEN Undefined ELSE Str(fieldKey[1])

\* createCondition(type, value, fieldKey)
createCondition(type, value, fieldKey) ==
    IF fieldKey # None /\ fieldKey[1] # <<>>
    THEN Obj(<< <<"key", Str(fieldKey[1])>>, <<type, value>> >>)
    ELSE Obj(<< <<type, value>> >>)

buildFinalConditionsAlwaysWraps(conditions, isNested) ==
    IF Len(conditions) = 0 THEN Obj(<<>>)
    ELSE Obj(<< <<"must", Arr(conditions)>> >>)

buildFinalConditionsMutant(conditions, isNested) ==
    IF Len(conditions) = 0 THEN Obj(<<>>)
    ELSE IF Len(conditions) = 1 /\ isNested THEN conditions[1]
    ELSE Arr(conditions)

\* buildFinalConditions(conditions, isNested)
buildFinalConditions(conditions, isNested) ==
    IF Len(conditions) = 0 THEN Obj(<<>>)
    ELSE IF Len(conditions) = 1 /\ isNested THEN conditions[1]
    ELSE Obj(<< <<"must", Arr(conditions)>> >>)

\* getQdrantLogicalOp(op)
getQdrantLogicalOp(op) ==
    CASE op = "$and" -> Str(<<"must">>)
      [] op = "$or" -> Str(<<"should">>)
      [] op = "$not" -> Str(<<"must_not">>)
      [] OTHER -> Throw("Unsupported logical operator", op)

\* translateOperatorValue(operator, value, fieldKey)
translateOperatorValue(operator, value, fieldKey) ==
    IF operator = "exists"
    THEN IF fieldKey = None \/ fieldKey[1] = <<>>
         THEN Throw("'exists' operator requires a field key.", operator)
         ELSE IF Truthy(value)
              THEN Obj(<< <<"must_not",
                            Arr(<<Obj(<< <<"is_null",
                                          Obj(<< <<"key", Str(fieldKey[1])>> >>)>> >>)>>)>> >>)
              ELSE Obj(<< <<"is_null", Obj(<< <<"key", Str(fieldKey[1])>> >>)>> >>)
    ELSE LET normalizedValue == normalizeComparisonValue(value)
         IN CASE operator = "$eq" -> Obj(<< <<"value", normalizedValue>> >>)
              [] operator = "$ne" -> Obj(<< <<"except", Arr(<<normalizedValue>>)>> >>)
              [] operator = "$gt" ->
                    Obj(<< <<"range", Obj(<< <<"gt", normalizedValue>> >>)>> >>)
              [] operator = "$gte" ->
                    Obj(<< <<"range", Obj(<< <<"gte", normalizedValue>> >>)>> >>)
              [] operator = "$lt" ->
                    Obj(<< <<"range", Obj(<< <<"lt", normalizedValue>> >>)>> >>)
              [] operator = "$lte" ->
                    Obj(<< <<"range", Obj(<< <<"lte", normalizedValue>> >>)>> >>)
              [] operator = "$in" -> Obj(<< <<"any", normalizeArrayValues(value)>> >>)
              [] operator = "$nin" -> Obj(<< <<"except", normalizeArrayValues(value)>> >>)
              [] operator = "$regex" ->
                    Obj(<< <<"match",
                             Obj(<< <<"text", Str(sanitizeRegex(value.tokens))>> >>)>> >>)
              [] OTHER -> Throw("Unsupported operator or incorrect handling", operator)

\* Object.assign(range, source)
RECURSIVE ObjectAssign(_, _)
ObjectAssign(target, source) ==
    IF source.entries = <<>> THEN target
    ELSE LET e == Head(source.entries)
             assigned ==
                IF HasKey(target, e[1])
                THEN Obj([i \in 1..Len(target.entries) |->
                            IF target.entries[i][1] = e[1] THEN e ELSE target.entries[i]])
                ELSE Obj(Append(target.entries, e))
         IN ObjectAssign(assigned, Obj(Tail(source.entries)))

RECURSIVE translateNode(_, _, _)
RECURSIVE handleLogicalOperators(_, _)
RECURSIVE handleFieldConditions(_, _, _)
RECURSIVE translateCustomOperator(_, _, _)

\* translateCustomOperator(op, value, fieldKey), for the custom operators of
\* the model: $hasId, $nested, $hasVector, $null, $empty.
translateCustomOperator(op, value, fieldKey) ==
    CASE op = "$hasId" ->
            Obj(<< <<"has_id", IF value.t = "array" THEN value ELSE Arr(<<value>>)>> >>)
      [] op = "$nested" ->
            LET filter == translateNode(value, FALSE, None)
            IN IF IsThrow(filter) THEN filter
               ELSE Obj(<< <<"nested",
                             Obj(<< <<"key", KeyOf(fieldKey)>>, <<"filter", filter>> >>)>> >>)
      [] op = "$hasVector" -> Obj(<< <<"has_vector", value>> >>)
      [] op = "$null" -> Obj(<< <<"is_null", Obj(<< <<"key", KeyOf(fieldKey)>> >>)>> >>)
      [] op = "$empty" -> Obj(<< <<"is_empty", Obj(<< <<"key", KeyOf(fieldKey)>> >>)>> >>)
      [] OTHER -> Throw("Unsupported custom operator", op)

\* handleLogicalOperators(entries, isNested): the result, or Undefined for
\* the null that sends translateNode on to the field conditions.
handleLogicalOperators(entries, isNested) ==
    IF /\ entries # <<>>
       /\ isLogicalOperator(entries[1][1])
       /\ ~isCustomOperator(entries[1][1])
    THEN LET key == entries[1][1]
             value == entries[1][2]
             qdrantOp == getQdrantLogicalOp(key)
             children ==
                IF value.t = "array"
                THEN [i \in 1..Len(value.items) |-> translateNode(value.items[i], TRUE, None)]
                ELSE <<translateNode(value, TRUE, None)>>
         IN IF IsThrow(qdrantOp) THEN qdrantOp
            ELSE IF FirstThrow(children) # None THEN FirstThrow(children)[1]
            ELSE Obj(<< <<qdrantOp.tokens[1], Arr(children)>> >>)
    ELSE IF /\ Len(entries) > 1
            /\ ~isNested
            /\ \A i \in 1..Len(entries) :
                  ~isOperator(entries[i][1]) /\ ~isCustomOperator(entries[i][1])
    THEN LET children ==
                [i \in 1..Len(entries) |->
                    translateNode(entries[i][2], TRUE, Some(<<entries[i][1]>>))]
         IN IF FirstThrow(children) # None THEN FirstThrow(children)[1]
            ELSE Obj(<< <<"must", Arr(children)>> >>)
    ELSE Undefined

\* handleFieldConditions(entries, fieldKey) from the entry acc.next on, with
\* conditions, range and matchCondition as the loop has them so far.
handleFieldConditions(entries, fieldKey, acc) ==
    IF acc.next > Len(entries) THEN acc
    ELSE LET key == entries[acc.next][1]
             value == entries[acc.next][2]
             step == [acc EXCEPT !.next = acc.next + 1]
         IN IF isCustomOperator(key)
            THEN LET customOp == translateCustomOperator(key, value, fieldKey)
                 IN IF IsThrow(customOp) THEN customOp
                    ELSE handleFieldConditions(entries, fieldKey,
                            [step EXCEPT !.conditions = Append(acc.conditions, customOp)])
            ELSE IF isOperator(key)
            THEN LET opResult == translateOperatorValue(key, value, fieldKey)
                 IN IF IsThrow(opResult) THEN opResult
                    ELSE IF HasKey(opResult, "range") /\ Truthy(Get(opResult, "range"))
                    THEN handleFieldConditions(entries, fieldKey,
                            [step EXCEPT !.range =
                                ObjectAssign(acc.range, Get(opResult, "range"))])
                    ELSE handleFieldConditions(entries, fieldKey,
                            [step EXCEPT !.matchCondition = opResult])
            ELSE LET nestedKey ==
                        IF fieldKey # None /\ fieldKey[1] # <<>>
                        THEN fieldKey[1] \o <<".", key>> ELSE <<key>>
                     nestedCondition == translateNode(value, TRUE, Some(nestedKey))
                 IN IF IsThrow(nestedCondition) THEN nestedCondition
                    ELSE IF /\ IsObject(nestedCondition)
                            /\ HasKey(nestedCondition, "must")
                            /\ Truthy(Get(nestedCondition, "must"))
                    THEN handleFieldConditions(entries, fieldKey,
                            [step EXCEPT !.conditions =
                                acc.conditions \o Get(nestedCondition, "must").items])
                    ELSE IF ~isEmpty(nestedCondition)
                    THEN handleFieldConditions(entries, fieldKey,
                            [step EXCEPT !.conditions =
                                Append(acc.conditions, nestedCondition)])
                    ELSE handleFieldConditions(entries, fieldKey, step)

\* translateNode(node, isNested = false, fieldKey)
translateNode(node, isNested, fieldKey) ==
    IF ~isEmpty(node) /\ IsObject(node) /\ HasKey(node, "must") THEN node
    ELSE IF isPrimitive(node)
    THEN IF node = Null
         THEN Obj(<< <<"is_null", Obj(<< <<"key", KeyOf(fieldKey)>> >>)>> >>)
         ELSE createCondition("match",
                  Obj(<< <<"value", normalizeComparisonValue(node)>> >>), fieldKey)
    ELSE IF node.t = "array"
    THEN IF Len(node.items) = 0
         THEN Obj(<< <<"is_empty", Obj(<< <<"key", KeyOf(fieldKey)>> >>)>> >>)
         ELSE createCondition("match",
                  Obj(<< <<"any", normalizeArrayValues(node)>> >>), fieldKey)
    ELSE LET entries == node.entries
             logicalResult == handleLogicalOperators(entries, isNested)
         IN IF logicalResult # Undefined THEN logicalResult
            ELSE LET handled ==
                        handleFieldConditions(entries, fieldKey,
                            [t |-> "handled", next |-> 1, conditions |-> <<>>, range |-> Obj(<<>>),
                             matchCondition |-> Null])
                 IN IF IsThrow(handled) THEN handled
                    ELSE LET withRange ==
                                IF Len(handled.range.entries) > 0
                                THEN Append(handled.conditions,
                                         Obj(<< <<"key", KeyOf(fieldKey)>>,
                                                <<"range", handled.range>> >>))
                                ELSE handled.conditions
                             withMatch ==
                                IF Truthy(handled.matchCondition)
                                THEN Append(withRange,
                                         Obj(<< <<"key", KeyOf(fieldKey)>>,
                                                <<"match", handled.matchCondition>> >>))
                                ELSE withRange
                         IN buildFinalConditions(withMatch, isNested)

translateMutant(filter) ==
    IF isEmpty(filter) THEN filter ELSE translateNode(filter, FALSE, None)

\* translate(filter)
translate(filter) ==
    IF isEmpty(filter) THEN filter
    ELSE IF validateFilter(filter) # None THEN validateFilter(filter)[1]
    ELSE translateNode(filter, FALSE, None)

\* The filters of the model.  Patterns are strings of up to MaxPatternLen
\* characters, two of them regex metacharacters; logical operators take up
\* to MaxChildren children.
MaxPatternLen == 2
MaxChildren == 2
PatternChars == {"a", ".", "$"}
Patterns == UNION {[1..n -> PatternChars] : n \in 0..MaxPatternLen}

\* { [key]: value }
Field(key, value) == Obj(<< <<key, value>> >>)

ComparisonOperators == {"$eq", "$ne", "$gt", "$gte", "$lt", "$lte"}

\* What a field is compared with: a primitive, an array, an object of
\* field-level operators, a nested path.
FieldOperands ==
    {Num(1), Null, Str(<<"v">>), Bool(TRUE), Arr(<<>>), Arr(<<Num(1), Num(2)>>), Obj(<<>>)}
        \cup {Field(op, Num(1)) : op \in ComparisonOperators \cup {"$bogus"}}
        \cup {Field(op, Arr(<<Num(1), Num(2)>>)) : op \in {"$in", "$nin"}}
        \cup {Obj(<< <<"$gt", Num(1)>>, <<"$lt", Num(2)>> >>),
              Obj(<< <<"$in", Arr(<<Num(1), Num(2)>>)>>, <<"$ne", Num(1)>> >>)}
        \cup {Field("$regex", Str(p)) : p \in Patterns}
        \cup {Field("$exists", Bool(b)) : b \in BOOLEAN}
        \cup {Field(op, Bool(TRUE)) : op \in {"$null", "$empty"}}
        \cup {Field("g", Num(1)), Field("$nested", Field("g", Num(1)))}

\* The operands of the fields of a two-field filter and of the children of
\* a logical operator.
ChildOperands ==
    {Num(1), Field("$gt", Num(1)), Field("$bogus", Num(1)), Obj(<<>>),
     Field("$regex", Str(<<".">>))}
Children ==
    {Field("f", v) : v \in ChildOperands}
        \cup {Field("$or", Arr(<<Field("f", Num(1))>>)),
              Obj(<< <<"f", Num(1)>>, <<"g", Num(1)>> >>)}

VectorFilters ==
    {Undefined, Null, Obj(<<>>)}
        \cup {Field("f", v) : v \in FieldOperands}
        \cup {Obj(<< <<"f", v>>, <<"g", w>> >>) : v \in ChildOperands, w \in ChildOperands}
        \cup {Field(op, Arr(children)) :
                op \in {"$and", "$or"},
                children \in UNION {[1..n -> Children] : n \in 0..MaxChildren}}
        \cup {Field("$not", child) : child \in Children}
        \cup {Obj(<< <<"$and", Arr(<<Field("f", Num(1))>>)>>, <<"g", Num(1)>> >>),
              Obj(<< <<"g", Num(1)>>, <<"$and", Arr(<<Field("f", Num(1))>>)>> >>)}
        \cup {Field("$hasId", Arr(<<Num(1)>>)), Field("$hasVector", Str(<<"dense">>))}
        \cup {Field("must", Arr(<<>>)),
              Obj(<< <<"must", Arr(<<>>)>>, <<"$bogus", Num(1)>> >>)}

FtIdle ==
    /\ ft_pc = "idle"
    /\ ft_filter = Undefined
    /\ ft_result = Undefined

FtInit ==
    /\ ft_pc = "start"
    /\ ft_filter \in VectorFilters
    /\ ft_result = Undefined

\* translator.translate(filter) returns.
FtTranslateReturns ==
    /\ ft_pc = "start"
    /\ ~IsThrow(translate(ft_filter))
    /\ ft_result' = translate(ft_filter)
    /\ ft_pc' = "translated"
    /\ UNCHANGED ft_filter

\* translator.translate(filter) throws.
FtTranslateThrows ==
    /\ ft_pc = "start"
    /\ IsThrow(translate(ft_filter))
    /\ ft_result' = translate(ft_filter)
    /\ ft_pc' = "failed"
    /\ UNCHANGED ft_filter

(***************************************************************************)
(* QdrantVector.query: qdrantVector.ts                                     *)
(***************************************************************************)
\* querySparseVector: { name, indices, values }
SparseVector(name, indices, values) ==
    [name |-> name, indices |-> indices, values |-> values]

\* The arguments of the model: the dense vector absent, empty or not; the
\* sparse vector absent, without indices or with one; topK absent or given;
\* no filter, a filter the translator accepts, filters with an operator
\* outside the supported table.
QueryVectors == {None, Some(<<>>), Some(<<1, 2>>)}
QuerySparseVectors ==
    {None, Some(SparseVector("keyword_sparse", <<>>, <<>>)),
     Some(SparseVector("keyword_sparse", <<7>>, <<3>>))}
TopKs == {None, Some(5)}
QueryFilters ==
    {Undefined, Field("f", Num(1)), Field("f", Field("$bogus", Num(1))),
     Field("$and", Arr(<<Field("f", Field("$bogus", Num(1)))>>)),
     Obj(<< <<"must", Arr(<<>>)>>, <<"$bogus", Num(1)>> >>)}

\* A ScoredPoint of the store's answer.
ScoredPoint(id, score, vector) ==
    [id |-> id, score |-> score, payload |-> "payload", vector |-> vector]
PointLists ==
    {<<>>, <<ScoredPoint("a", 9, Some(<<1, 2>>))>>,
     <<ScoredPoint("a", 9, Some(<<1, 2>>)), ScoredPoint("b", 0, None)>>}
QvThrown == {ErrorValue("Error", TRUE, 503, <<"boom">>, FALSE)}

\* { topK = 10 } = params
DefaultTopK == 10

\* transformFilter(filter): new QdrantFilterTranslator().translate(filter)
transformFilter(filter) == translate(filter)

\* this.transformFilter(filter) ?? {}: an absent filter is translated to
\* itself and replaced by {}; what the translator throws is passed on.
TranslatedFilter(filter) ==
    IF transformFilter(filter) \in {Undefined, Null} THEN Obj(<<>>)
    ELSE transformFilter(filter)

QueryPathMutant(queryVector, querySparseVector) ==
    IF querySparseVector # None THEN "fusion"
    ELSE IF queryVector # None THEN "dense"
    ELSE "error"

\* if (querySparseVector && querySparseVector.indices.length > 0) ...
\* else if (queryVector) ... else throw
QueryPath(queryVector, querySparseVector) ==
    IF querySparseVector # None /\ Len(querySparseVector[1].indices) > 0 THEN "fusion"
    ELSE IF queryVector # None THEN "dense"
    ELSE "error"

\* queryRequest.query
RequestQuery(path, queryVector, querySparseVector) ==
    IF path = "fusion"
    THEN [fusion |-> "rrf", vector |-> queryVector,
          sparse |-> Some([indices |-> querySparseVector[1].indices,
                           values |-> querySparseVector[1].values,
                           name |-> querySparseVector[1].name])]
    ELSE [fusion |-> "none", vector |-> queryVector, sparse |-> None]

QueryRequest(params, path) ==
    [indexName |-> params.indexName,
     limit |-> IF params.topK = None THEN DefaultTopK ELSE params.topK[1],
     filter |-> TranslatedFilter(params.filter),
     with_payload |-> TRUE,
     with_vector |-> params.includeVector,
     query |-> RequestQuery(path, params.queryVector, params.querySparseVector)]

\* results.map(...): id, score || 0, metadata, and the vector if asked for.
QueryResult(match, includeVector) ==
    [id |-> match.id, score |-> match.score, metadata |-> match.payload,
     vector |-> IF includeVector
                THEN Some(IF match.vector = None THEN <<>> ELSE match.vector[1])
                ELSE None]

QvIdle ==
    /\ qv_pc = "idle"
    /\ qv_params = [indexName |-> "", queryVector |-> None, querySparseVector |-> None,
                    topK |-> None, filter |-> Undefined, includeVector |-> FALSE]
    /\ qv_requests = <<>>
    /\ qv_result = None
    /\ qv_thrown = None

QvInit ==
    /\ qv_pc = "start"
    /\ qv_params \in [indexName : {"code"}, queryVector : QueryVectors,
                       querySparseVector : QuerySparseVectors, topK : TopKs,
                       filter : QueryFilters, includeVector : BOOLEAN]
    /\ qv_requests = <<>>
    /\ qv_result = None
    /\ qv_thrown = None

\* An error leaves query(): nothing in it catches.
QvFail(error) ==
    /\ qv_thrown' = Some(error)
    /\ qv_pc' = "failed"

\* query() from its entry to the await of client.query.
QvQuery ==
    /\ qv_pc = "start"
    /\ LET path == QueryPath(qv_params.queryVector, qv_params.querySparseVector)
           translatedFilter == TranslatedFilter(qv_params.filter)
       IN IF IsThrow(translatedFilter)
          THEN /\ QvFail(PlainError(<<translatedFilter.message>>))
               /\ UNCHANGED qv_requests
          ELSE IF path = "error"
          THEN /\ QvFail(PlainError(
                      <<"Either queryVector or querySparseVector must be provided.">>))
               /\ UNCHANGED qv_requests
          ELSE /\ qv_requests' = Append(qv_requests, QueryRequest(qv_params, path))
               /\ qv_pc' = "querying"
               /\ UNCHANGED qv_thrown
    /\ UNCHANGED <<qv_params, qv_result>>

\* client.query resolves: response.points are mapped to the results.
QvClientReturns ==
    /\ qv_pc = "querying"
    /\ \E points \in PointLists :
          qv_result' = Some([i \in 1..Len(points) |->
                                QueryResult(points[i], qv_params.includeVector)])
    /\ qv_pc' = "done"
    /\ UNCHANGED <<qv_params, qv_requests, qv_thrown>>

\* client.query rejects: the error leaves query() as it is.
QvClientThrows ==
    /\ qv_pc = "querying"
    /\ \E e \in QvThrown : QvFail(e)
    /\ UNCHANGED <<qv_params, qv_requests, qv_result>>

(***************************************************************************)
(* QdrantVector.upsert: qdrantVector.ts                                    *)
(***************************************************************************)
\* const BATCH_SIZE = 256
BATCH_SIZE == 256

\* The largest number of vectors of a call of the model.
MaxVectors == 513

\* The numbers of vectors of the calls of the model: none, one, and the
\* numbers around one and two full batches.
VectorCounts ==
    {0, 1, BATCH_SIZE - 1, BATCH_SIZE, BATCH_SIZE + 1, 2 * BATCH_SIZE, MaxVectors}

\* vectors[i] is named by its position; an id the caller gave and an id
\* crypto.randomUUID() made are distinct values named by their position.
GivenId(i) == <<"id", i>>
RandomUUID(i) == <<"uuid", i>>

\* ids: absent, one per vector, or (nothing in upsert checks the length)
\* one short.
IdLists(n) ==
    {None, Some([i \in 1..n |-> GivenId(i)])}
        \cup (IF n > 0 THEN {Some([i \in 1..(n - 1) |-> GivenId(i)])} ELSE {})

UpThrown == {ErrorValue("Error", TRUE, 503, <<"boom">>, FALSE)}

\* const pointIds = ids || vectors.map(() => crypto.randomUUID())
PointIds(ids, n) == IF ids # None THEN ids[1] ELSE [i \in 1..n |-> RandomUUID(i)]

\* vectors.map((vector, i) => ({ id: pointIds[i], vector, payload: metadata?.[i] || {} }))
Records(n, pointIds, hasMetadata) ==
    [i \in 1..n |->
        [id |-> IF i <= Len(pointIds) THEN pointIds[i] ELSE "undefined",
         vector |-> i,
         payload |-> IF hasMetadata THEN <<"metadata", i>> ELSE "{}"]]

BatchOfMutant(records, i) ==
    SubSeq(records, i + 1, IF i + BATCH_SIZE + 1 < Len(records)
                           THEN i + BATCH_SIZE + 1 ELSE Len(records))

\* records.slice(i, i + BATCH_SIZE), i counted from 0
BatchOf(records, i) ==
    SubSeq(records, i + 1, IF i + BATCH_SIZE < Len(records)
                           THEN i + BATCH_SIZE ELSE Len(records))

\* client.upsert(indexName, { points: batch, wait: true }); acksSeen is how
\* many earlier requests had resolved when this one was issued.
UpsertRequest(indexName, batch, acksSeen) ==
    [indexName |-> indexName, points |-> batch, wait |-> TRUE, acksSeen |-> acksSeen]

UpIdle ==
    /\ up_pc = "idle"
    /\ up_params = [indexName |-> "", vectors |-> 0, hasMetadata |-> FALSE, ids |-> None]
    /\ up_pointIds = <<>>
    /\ up_records = <<>>
    /\ up_i = 0
    /\ up_acks = 0
    /\ up_requests = <<>>
    /\ up_result = None
    /\ up_thrown = None

UpInit ==
    /\ up_pc = "start"
    /\ \E n \in VectorCounts : \E ids \in IdLists(n) : \E hasMetadata \in BOOLEAN :
          up_params = [indexName |-> "code", vectors |-> n,
                       hasMetadata |-> hasMetadata, ids |-> ids]
    /\ up_pointIds = <<>>
    /\ up_records = <<>>
    /\ up_i = 0
    /\ up_acks = 0
    /\ up_requests = <<>>
    /\ up_result = None
    /\ up_thrown = None

\* One turn of the for loop from its test: the next batch is issued and
\* awaited, or the loop is over and pointIds is returned.
UpLoop(records, i, acks, pointIds) ==
    IF i < Len(records)
    THEN /\ up_requests' = Append(up_requests,
                UpsertRequest(up_params.indexName, BatchOf(records, i), acks))
         /\ up_pc' = "awaiting"
         /\ UNCHANGED up_result
    ELSE /\ up_result' = Some(pointIds)
         /\ up_pc' = "done"
         /\ UNCHANGED up_requests

\* upsert() from its entry to the first await, or to its return when there
\* is no record.
UpStart ==
    /\ up_pc = "start"
    /\ LET pointIds == PointIds(up_params.ids, up_params.vectors)
           records == Records(up_params.vectors, pointIds, up_params.hasMetadata)
       IN /\ up_pointIds' = pointIds
          /\ up_records' = records
          /\ up_i' = 0
          /\ UpLoop(records, 0, up_acks, pointIds)
    /\ UNCHANGED <<up_params, up_acks, up_thrown>>

\* client.upsert resolves: i += BATCH_SIZE and the loop goes on.
UpBatchAcked ==
    /\ up_pc = "awaiting"
    /\ up_acks' = up_acks + 1
    /\ up_i' = up_i + BATCH_SIZE
    /\ UpLoop(up_records, up_i + BATCH_SIZE, up_acks + 1, up_pointIds)
    /\ UNCHANGED <<up_params, up_pointIds, up_records, up_thrown>>

UpBatchThrowsMutant ==
    /\ up_pc = "awaiting"
    /\ \E e \in UpThrown : up_thrown' = Some(e)
    /\ up_requests' = Append(up_requests, up_requests[Len(up_requests)])
    /\ up_pc' = "failed"
    /\ UNCHANGED <<up_params, up_pointIds, up_records, up_i, up_acks, up_result>>

\* client.upsert rejects: nothing in upsert() catches.
UpBatchThrows ==
    /\ up_pc = "awaiting"
    /\ \E e \in UpThrown : up_thrown' = Some(e)
    /\ up_pc' = "failed"
    /\ UNCHANGED <<up_params, up_pointIds, up_records, up_i, up_acks, up_requests,
                   up_result>>

(***************************************************************************)
(* QdrantVector.updateIndexById, deleteIndexById, parsePointId:            *)
(* qdrantVector.ts                                                         *)
(***************************************************************************)
\* The longest id string of the model.
MaxIdLen == 2

\* The characters of the id strings of the model: digits, a sign, a letter.
Digits == {"0", "1", "9"}
IdChars == Digits \cup {"-", "a"}
IdStrings == UNION {[1..n -> IdChars] : n \in 0..MaxIdLen}

DigitValue(c) == IF c = "1" THEN 1 ELSE IF c = "9" THEN 9 ELSE 0

\* parseInt(id, 10) of a string of digits
RECURSIVE ParseInt(_)
ParseInt(id) ==
    IF id = <<>> THEN 0
    ELSE 10 * ParseInt(SubSeq(id, 1, Len(id) - 1)) + DigitValue(id[Len(id)])

LooksNumericMutant(id) ==
    /\ Len(id) > 0
    /\ \A i \in 1..Len(id) : id[i] \in Digits \/ (i = 1 /\ id[i] = "-" /\ Len(id) > 1)

\* /^\d+$/.test(id)
LooksNumeric(id) ==
    /\ Len(id) > 0
    /\ \A i \in 1..Len(id) : id[i] \in Digits

\* A point identifier: a number or a string.
NumberId(n) == [type |-> "number", value |-> n]
StringId(s) == [type |-> "string", value |-> s]

parsePointId(id) ==
    IF LooksNumeric(id) THEN NumberId(ParseInt(id)) ELSE StringId(id)

\* update: { vector?, metadata? }
Updates == [vector : BOOLEAN, metadata : BOOLEAN]
NoUpdate == [vector |-> FALSE, metadata |-> FALSE]

PidThrown == {ErrorValue("Error", TRUE, 503, <<"boom">>, FALSE)}

\* The client method updateIndexById calls for an update.
UpdateMethod(update) ==
    IF update.metadata /\ ~update.vector THEN "setPayload"
    ELSE IF update.vector /\ ~update.metadata THEN "updateVectors"
    ELSE "upsert"

\* A request of the client that addresses one point.
PointRequest(method, pointId) == [method |-> method, point |-> pointId]

PidIdle ==
    /\ pid_pc = "idle"
    /\ pid_call = [method |-> "", id |-> <<>>, update |-> NoUpdate]
    /\ pid_requests = <<>>
    /\ pid_thrown = None

PidInit ==
    /\ pid_pc = "start"
    /\ \E id \in IdStrings :
          \/ \E update \in Updates :
                pid_call = [method |-> "updateIndexById", id |-> id, update |-> update]
          \/ pid_call = [method |-> "deleteIndexById", id |-> id, update |-> NoUpdate]
    /\ pid_requests = <<>>
    /\ pid_thrown = None

\* updateIndexById() from its entry to the await of the client call.
UpdateIndexById ==
    /\ pid_pc = "start"
    /\ pid_call.method = "updateIndexById"
    /\ IF ~pid_call.update.vector /\ ~pid_call.update.metadata
       THEN /\ pid_thrown' = Some(PlainError(<<"No updates provided">>))
            /\ pid_pc' = "failed"
            /\ UNCHANGED pid_requests
       ELSE /\ pid_requests' = Append(pid_requests,
                   PointRequest(UpdateMethod(pid_call.update), parsePointId(pid_call.id)))
            /\ pid_pc' = "awaiting"
            /\ UNCHANGED pid_thrown
    /\ UNCHANGED pid_call

\* deleteIndexById() from its entry to the await of client.delete.
DeleteIndexById ==
    /\ pid_pc = "start"
    /\ pid_call.method = "deleteIndexById"
    /\ pid_requests' = Append(pid_requests,
            PointRequest("delete", parsePointId(pid_call.id)))
    /\ pid_pc' = "awaiting"
    /\ UNCHANGED <<pid_call, pid_thrown>>

\* The client call resolves: the method returns.
PidClientReturns ==
    /\ pid_pc = "awaiting"
    /\ pid_pc' = "done"
    /\ UNCHANGED <<pid_call, pid_requests, pid_thrown>>

\* The client call rejects: updateIndexById logs and rethrows, nothing in
\* deleteIndexById catches.
PidClientThrows ==
    /\ pid_pc = "awaiting"
    /\ \E e \in PidThrown : pid_thrown' = Some(e)
    /\ pid_pc' = "failed"
    /\ UNCHANGED <<pid_call, pid_requests>>

(***************************************************************************)
(* processTextToFinalTokens (tokenProcessor.ts) and                        *)
(* processQueryForSparseVector (sparseVectorHelper.ts)                     *)
(*                                                                         *)
(* A text is a sequence of lexemes: lower-case words and the separators    *)
(* space, semicolon, line break and dot.  No two words are adjacent in a   *)
(* text, so that a lexeme is a word of the text.                           *)
(***************************************************************************)
\* The longest query of the model, in lexemes.
MaxQueryLen == 3

QueryWords == {"alpha", "tokens", "the", "alpha_tokens"}
QuerySeparators == {" ", ";", "\n", "."}
Lexemes == QueryWords \cup QuerySeparators
IsWord(lexeme) == lexeme \notin QuerySeparators

Queries ==
    {q \in UNION {[1..n -> Lexemes] : n \in 0..MaxQueryLen} :
        \A i \in 1..(Len(q) - 1) : ~(IsWord(q[i]) /\ IsWord(q[i + 1]))}

\* The number of characters of a lexeme and of a text.
LexemeLength(lexeme) ==
    CASE lexeme \in {"alpha", "token"} -> 5
      [] lexeme = "tokens" -> 6
      [] lexeme \in {"the", "get"} -> 3
      [] lexeme = "alpha_tokens" -> 12
      [] OTHER -> 1
RECURSIVE StringLength(_)
StringLength(text) ==
    IF text = <<>> THEN 0 ELSE LexemeLength(Head(text)) + StringLength(Tail(text))

\* The members of DEFAULT_STOP_WORDS among the words of the model.
DEFAULT_STOP_WORDS == {"the", "get"}

\* t.trim(), and the strip of what is not [a-z0-9@#$_] from both ends.
RECURSIVE TrimSpaces(_)
TrimSpaces(text) ==
    IF text = <<>> THEN <<>>
    ELSE IF Head(text) = " " THEN TrimSpaces(Tail(text))
    ELSE IF text[Len(text)] = " " THEN TrimSpaces(SubSeq(text, 1, Len(text) - 1))
    ELSE text

\* text.split(separator) for a set of separator lexemes: the pieces between
\* the separators, the empty ones included.
RECURSIVE SplitAt(_, _)
SplitAt(text, separators) ==
    IF \A i \in 1..Len(text) : text[i] \notin separators THEN <<text>>
    ELSE LET k == CHOOSE i \in 1..Len(text) :
                    /\ text[i] \in separators
                    /\ \A j \in 1..(i - 1) : text[j] \notin separators
         IN <<SubSeq(text, 1, k - 1)>> \o SplitAt(SubSeq(text, k + 1, Len(text)), separators)

\* The members of a sequence that satisfy a test, in order.
NonEmpty(pieces) == SelectSeq(pieces, LAMBDA piece : piece # <<>>)

\* What the initial split cuts at: a run of line breaks becomes " ; ", and
\* the text is split at /\s*;\s*/.
InitialSeparators == {";", "\n"}

\* text.replace(/[\r\n]+/g, " ; ").split(/\s*;\s*/).map(t => t.trim())
\*     .filter(t => t.length > 0)
initialTokens(text) ==
    LET pieces == SplitAt(text, InitialSeparators)
    IN NonEmpty([i \in 1..Len(pieces) |-> TrimSpaces(pieces[i])])

\* The test before the compound splitting: the token is letters and digits
\* in snake, kebab or camel case, and longer than 4 characters.
LooksLikeIdentifier(token) ==
    Len(token) = 1 /\ IsWord(token[1]) /\ StringLength(token) > 4

\* splitCompoundIdentifier(token), for a token that is one word
splitCompoundIdentifier(token) ==
    IF token = <<"alpha_tokens">> THEN << <<"alpha">>, <<"tokens">> >> ELSE <<token>>

\* PorterStemmer.stem(token): the suffix of the string is stemmed.
stem(token) ==
    IF token[Len(token)] = "tokens"
    THEN SubSeq(token, 1, Len(token) - 1) \o <<"token">>
    ELSE token

\* One dot part from its cleaning to the final filter: the token pushed, if
\* one is.  None of the specialised filters applies to words and spaces.
FinalToken(dotPart) ==
    LET cleanedSubToken == TrimSpaces(dotPart)
    IN IF \/ (Len(cleanedSubToken) = 1 /\ cleanedSubToken[1] \in DEFAULT_STOP_WORDS)
          \/ StringLength(cleanedSubToken) <= 1
       THEN None
       ELSE LET stemmedToken ==
                    IF StringLength(cleanedSubToken) > 2
                    THEN stem(cleanedSubToken) ELSE cleanedSubToken
            IN IF \/ (Len(stemmedToken) = 1 /\ stemmedToken[1] \in DEFAULT_STOP_WORDS)
                  \/ StringLength(stemmedToken) <= 2
               THEN None
               ELSE Some(stemmedToken)

\* The concatenation of a sequence of sequences.
RECURSIVE Flatten(_)
Flatten(lists) == IF lists = <<>> THEN <<>> ELSE Head(lists) \o Flatten(Tail(lists))

\* processTextToFinalTokens(text)
processTextToFinalTokens(text) ==
    LET tokensOf(originalToken) ==
            LET tokensForCompoundSplitting ==
                    IF LooksLikeIdentifier(originalToken)
                    THEN splitCompoundIdentifier(originalToken)
                    ELSE <<originalToken>>
                dotParts ==
                    Flatten([i \in 1..Len(tokensForCompoundSplitting) |->
                                NonEmpty(SplitAt(tokensForCompoundSplitting[i], {"."}))])
            IN Flatten([i \in 1..Len(dotParts) |-> FinalToken(dotParts[i])])
        units == initialTokens(text)
    IN Flatten([i \in 1..Len(units) |-> tokensOf(units[i])])

\* The vocabularies of the model: none loaded, an empty one, and three with
\* terms, one of them with a term of two words.
Vocabularies ==
    {None,
     Some([term \in {} |-> 0]),
     Some([term \in {<<"alpha">>} |-> 3]),
     Some([term \in {<<"alpha">>, <<"token">>} |-> IF term = <<"alpha">> THEN 3 ELSE 5]),
     Some([term \in {<<"alpha", " ", "alpha">>, <<"token">>} |->
              IF term = <<"token">> THEN 5 ELSE 9])}

RECURSIVE Occurrences(_, _)
Occurrences(tokens, term) ==
    IF tokens = <<>> THEN 0
    ELSE (IF Head(tokens) = term THEN 1 ELSE 0) + Occurrences(Tail(tokens), term)

termFrequenciesMutant(tokens) == [i \in 1..Len(tokens) |-> <<tokens[i], 1>>]

\* termFrequencies: every distinct token with the number of its occurrences,
\* in the order of the first occurrences (the order for...in visits them).
termFrequencies(tokens) ==
    LET first == SelectSeq([i \in 1..Len(tokens) |->
                               IF \A j \in 1..(i - 1) : tokens[j] # tokens[i]
                               THEN Some(tokens[i]) ELSE None],
                           LAMBDA t : t # None)
    IN [i \in 1..Len(first) |-> <<first[i][1], Occurrences(tokens, first[i][1])>>]

\* processQueryForSparseVector(query, vocabulary, sparseVectorName)
processQueryForSparseVector(query, vocabulary, sparseVectorName) ==
    IF query = <<>> \/ vocabulary = None THEN None
    ELSE LET frequencies == termFrequencies(processTextToFinalTokens(query))
             known == SelectSeq(frequencies, LAMBDA f : f[1] \in DOMAIN vocabulary[1])
             indices == [i \in 1..Len(known) |-> vocabulary[1][known[i][1]]]
             values == [i \in 1..Len(known) |-> known[i][2]]
         IN IF Len(indices) = 0 THEN None
            ELSE Some(SparseVector(sparseVectorName, indices, values))

SvIdle ==
    /\ sv_pc = "idle"
    /\ sv_query = <<>>
    /\ sv_vocabulary = None
    /\ sv_result = None

SvInit ==
    /\ sv_pc = "start"
    /\ sv_query \in Queries
    /\ sv_vocabulary \in Vocabularies
    /\ sv_result = None

\* processQueryForSparseVector returns undefined.
SvReturnsNone ==
    /\ sv_pc = "start"
    /\ processQueryForSparseVector(sv_query, sv_vocabulary, "keyword_sparse") = None
    /\ sv_result' = None
    /\ sv_pc' = "done"
    /\ UNCHANGED <<sv_query, sv_vocabulary>>

\* processQueryForSparseVector returns a sparse vector.
SvReturnsVector ==
    /\ sv_pc = "start"
    /\ processQueryForSparseVector(sv_query, sv_vocabulary, "keyword_sparse") # None
    /\ sv_result' = processQueryForSparseVector(sv_query, sv_vocabulary, "keyword_sparse")
    /\ sv_pc' = "done"
    /\ UNCHANGED <<sv_query, sv_vocabulary>>

(***************************************************************************)
(* Two calls of one QdrantVector on one collection: upsert of one vector   *)
(* under an id string, updateIndexById, deleteIndexById.  The store keeps  *)
(* a point under the identifier it was written with, and a number and a    *)
(* string are different identifiers.                                       *)
(***************************************************************************)
\* upsert: { id: pointIds[i], ... } with pointIds = ids, the id strings as
\* the caller gave them.
UpsertPointId(id) == StringId(id)

\* One call and the point it addressed.
StCall(method, id, point) == [method |-> method, id |-> id, point |-> point]

StIdle ==
    /\ st_pc = "idle"
    /\ st_calls = <<>>
    /\ st_points = {}

StInit ==
    /\ st_pc = "first"
    /\ st_calls = <<>>
    /\ st_points = {}

StAfterCall == IF st_pc = "first" THEN "second" ELSE "done"

\* upsert({ indexName, vectors: [v], ids: [id] }): one batch of one record.
StUpsert ==
    /\ st_pc \in {"first", "second"}
    /\ \E id \in IdStrings :
          /\ st_calls' = Append(st_calls, StCall("upsert", id, UpsertPointId(id)))
          /\ st_points' = st_points \cup {UpsertPointId(id)}
    /\ st_pc' = StAfterCall

\* updateIndexById(indexName, id, update): setPayload and updateVectors
\* change the point they address, client.upsert writes it.
StUpdateIndexById ==
    /\ st_pc \in {"first", "second"}
    /\ \E id \in IdStrings : \E update \in Updates \ {NoUpdate} :
          /\ st_calls' = Append(st_calls, StCall("updateIndexById", id, parsePointId(id)))
          /\ st_points' = IF UpdateMethod(update) = "upsert"
                          THEN st_points \cup {parsePointId(id)}
                          ELSE st_points
    /\ st_pc' = StAfterCall

\* deleteIndexById(indexName, id)
StDeleteIndexById ==
    /\ st_pc \in {"first", "second"}
    /\ \E id \in IdStrings :
          /\ st_calls' = Append(st_calls, StCall("deleteIndexById", id, parsePointId(id)))
          /\ st_points' = st_points \ {parsePointId(id)}
    /\ st_pc' = StAfterCall

(***************************************************************************)
(* Specifications                                                          *)
(***************************************************************************)
\* Each specification runs one component; the others stay idle.
WfFrame == UNCHANGED <<clsVars, evVars, gcVars, rtVars, ccVars, qvVars,
    upVars, pidVars, ftVars, svVars, stVars>>
RtFrame == UNCHANGED <<clsVars, evVars, gcVars, wfVars, ccVars, qvVars,
    upVars, pidVars, ftVars, svVars, stVars>>
CcFrame == UNCHANGED <<clsVars, evVars, gcVars, wfVars, rtVars, qvVars,
    upVars, pidVars, ftVars, svVars, stVars>>
QvFrame == UNCHANGED <<clsVars, evVars, gcVars, wfVars, rtVars, ccVars,
    upVars, pidVars, ftVars, svVars, stVars>>
ClsFrame == UNCHANGED <<evVars, gcVars, wfVars, rtVars, ccVars, qvVars,
    upVars, pidVars, ftVars, svVars, stVars>>
EvFrame == UNCHANGED <<clsVars, gcVars, wfVars, rtVars, ccVars, qvVars,
    upVars, pidVars, ftVars, svVars, stVars>>
GcFrame == UNCHANGED <<clsVars, evVars, wfVars, rtVars, ccVars, qvVars,
    upVars, pidVars, ftVars, svVars, stVars>>

ClsNext ==
    \/ Classify /\ ClsFrame
    \/ WrapAndRethrow /\ ClsFrame
InitClassify ==
    ClsInit /\ EvIdle /\ GcIdle /\ WfIdle /\ RtIdle /\ CcIdle /\ QvIdle /\
    UpIdle /\ PidIdle /\ FtIdle /\ SvIdle /\ StIdle
SpecClassify == InitClassify /\ [][ClsNext]_vars

EvNext ==
    \/ EvStart /\ EvFrame
    \/ EvJudgeReturns /\ EvFrame
    \/ EvJudgeThrows /\ EvFrame
    \/ EvEmbedReturns /\ EvFrame
    \/ EvEmbedThrows /\ EvFrame
    \/ EvRegenReturns /\ EvFrame
    \/ EvRegenThrows /\ EvFrame
InitEval ==
    EvInit /\ ClsIdle /\ GcIdle /\ WfIdle /\ RtIdle /\ CcIdle /\ QvIdle /\
    UpIdle /\ PidIdle /\ FtIdle /\ SvIdle /\ StIdle
SpecEval == InitEval /\ [][EvNext]_vars

GcNext ==
    \/ GcStart /\ GcFrame
    \/ GcVocabularyLoaded /\ GcFrame
    \/ GcFirstReturns /\ GcFrame
    \/ GcFallbackReturns /\ GcFrame
    \/ GcSummaryReturns /\ GcFrame
    \/ GcChunkReturns /\ GcFrame
    \/ GcQueryThrows /\ GcFrame
    \/ GcNextRun /\ GcFrame
InitContext ==
    GcInit /\ ClsIdle /\ EvIdle /\ WfIdle /\ RtIdle /\ CcIdle /\ QvIdle /\
    UpIdle /\ PidIdle /\ FtIdle /\ SvIdle /\ StIdle
SpecContext == InitContext /\ [][GcNext]_vars

WfNext ==
    \/ WfTransformQuery /\ WfFrame
    \/ WfTransformReturns /\ WfFrame
    \/ WfTransformThrows /\ WfFrame
    \/ WfDecideRetrieval /\ WfFrame
    \/ WfDecideReturns /\ WfFrame
    \/ WfDecideThrows /\ WfFrame
    \/ WfGetContext /\ WfFrame
    \/ WfGetContextReturns /\ WfFrame
    \/ WfGetContextThrows /\ WfFrame
    \/ WfCompressContext /\ WfFrame
    \/ WfCompressReturns /\ WfFrame
    \/ WfGenerateResponse /\ WfFrame
    \/ WfGenerateReturns /\ WfFrame
    \/ WfGenerateThrows /\ WfFrame
    \/ WfEvaluateAndRetry /\ WfFrame
    \/ WfEvaluateReturns /\ WfFrame
    \/ WfEvaluateThrows /\ WfFrame
InitWorkflow ==
    WfInit /\ ClsIdle /\ EvIdle /\ GcIdle /\ RtIdle /\ CcIdle /\ QvIdle /\
    UpIdle /\ PidIdle /\ FtIdle /\ SvIdle /\ StIdle
SpecWorkflow == InitWorkflow /\ [][WfNext]_vars

RtNext ==
    \/ RtFormat /\ RtFrame
    \/ RtParse /\ RtFrame
InitRoundTrip ==
    RtInit /\ ClsIdle /\ EvIdle /\ GcIdle /\ WfIdle /\ CcIdle /\ QvIdle /\
    UpIdle /\ PidIdle /\ FtIdle /\ SvIdle /\ StIdle
SpecRoundTrip == InitRoundTrip /\ [][RtNext]_vars

CcNext ==
    \/ CcStart /\ CcFrame
    \/ CcSnippetReturns /\ CcFrame
    \/ CcSnippetThrows /\ CcFrame
InitCompress ==
    CcInit /\ ClsIdle /\ EvIdle /\ GcIdle /\ WfIdle /\ RtIdle /\ QvIdle /\
    UpIdle /\ PidIdle /\ FtIdle /\ SvIdle /\ StIdle
SpecCompress == InitCompress /\ [][CcNext]_vars

QvNext ==
    \/ QvQuery /\ QvFrame
    \/ QvClientReturns /\ QvFrame
    \/ QvClientThrows /\ QvFrame
InitQuery ==
    QvInit /\ ClsIdle /\ EvIdle /\ GcIdle /\ WfIdle /\ RtIdle /\ CcIdle /\
    UpIdle /\ PidIdle /\ FtIdle /\ SvIdle /\ StIdle
SpecQuery == InitQuery /\ [][QvNext]_vars

UpFrame == UNCHANGED <<clsVars, evVars, gcVars, wfVars, rtVars, ccVars,
    qvVars, pidVars, ftVars, svVars, stVars>>
UpNext ==
    \/ UpStart /\ UpFrame
    \/ UpBatchAcked /\ UpFrame
    \/ UpBatchThrows /\ UpFrame
InitUpsert ==
    UpInit /\ ClsIdle /\ EvIdle /\ GcIdle /\ WfIdle /\ RtIdle /\ CcIdle /\
    QvIdle /\ PidIdle /\ FtIdle /\ SvIdle /\ StIdle
SpecUpsert == InitUpsert /\ [][UpNext]_vars

PidFrame == UNCHANGED <<clsVars, evVars, gcVars, wfVars, rtVars, ccVars,
    qvVars, upVars, ftVars, svVars, stVars>>
PidNext ==
    \/ UpdateIndexById /\ PidFrame
    \/ DeleteIndexById /\ PidFrame
    \/ PidClientReturns /\ PidFrame
    \/ PidClientThrows /\ PidFrame
InitPointId ==
    PidInit /\ ClsIdle /\ EvIdle /\ GcIdle /\ WfIdle /\ RtIdle /\ CcIdle /\
    QvIdle /\ UpIdle /\ FtIdle /\ SvIdle /\ StIdle
SpecPointId == InitPointId /\ [][PidNext]_vars

FtFrame == UNCHANGED <<clsVars, evVars, gcVars, wfVars, rtVars, ccVars,
    qvVars, upVars, pidVars, svVars, stVars>>
FtNext ==
    \/ FtTranslateReturns /\ FtFrame
    \/ FtTranslateThrows /\ FtFrame
InitFilter ==
    FtInit /\ ClsIdle /\ EvIdle /\ GcIdle /\ WfIdle /\ RtIdle /\ CcIdle /\
    QvIdle /\ UpIdle /\ PidIdle /\ SvIdle /\ StIdle
SpecFilter == InitFilter /\ [][FtNext]_vars

SvFrame == UNCHANGED <<clsVars, evVars, gcVars, wfVars, rtVars, ccVars,
    qvVars, upVars, pidVars, ftVars, stVars>>
SvNext ==
    \/ SvReturnsNone /\ SvFrame
    \/ SvReturnsVector /\ SvFrame
InitSparse ==
    SvInit /\ ClsIdle /\ EvIdle /\ GcIdle /\ WfIdle /\ RtIdle /\ CcIdle /\
    QvIdle /\ UpIdle /\ PidIdle /\ FtIdle /\ StIdle
SpecSparse == InitSparse /\ [][SvNext]_vars

StFrame == UNCHANGED <<clsVars, evVars, gcVars, wfVars, rtVars, ccVars, qvVars,
    upVars, pidVars, ftVars, svVars>>
StNext ==
    \/ StUpsert /\ StFrame
    \/ StUpdateIndexById /\ StFrame
    \/ StDeleteIndexById /\ StFrame
InitStore ==
    StInit /\ ClsIdle /\ EvIdle /\ GcIdle /\ WfIdle /\ RtIdle /\ CcIdle /\
    QvIdle /\ UpIdle /\ PidIdle /\ FtIdle /\ SvIdle
SpecStore == InitStore /\ [][StNext]_vars

(***************************************************************************)
(* Properties of evaluateAndRetry                                          *)
(***************************************************************************)
CallsOfKind(kind) == Cardinality({i \in 1..Len(ev_calls) : ev_calls[i].kind = kind})

\* Empty or made of whitespace only.
WhitespaceOnly(s) == \A i \in 1..Len(s) : s[i] = " "

EvTerminated == ev_pc \in {"done", "failed"}

\* C1: with a non-empty context and an initial evaluation that returned a
\* score strictly below the retry threshold, exactly one regeneration call is
\* issued; a run that returns has made exactly two evaluations (judge call
\* and groundedness check each), the second evaluation is followed by the
\* return whatever its score, and no run makes a second regeneration call or
\* a third evaluation.
C1_SingleRetry ==
    /\ CallsOfKind("regenerate") <= 1
    /\ CallsOfKind("judge") <= 2
    /\ Len(ev_grounds) <= 2
    /\ (ev_first # None /\ ev_first[1].score < RETRY_THRESHOLD) =>
          /\ CallsOfKind("regenerate") = 1
          /\ ev_pc = "done" =>
                /\ CallsOfKind("judge") = 2
                /\ Len(ev_grounds) = 2
                /\ ev_attempt = 2
    /\ Len(ev_grounds) = 2 => EvTerminated
    /\ (Len(ev_grounds) = 2 /\ ev_grounds[2].verdict # None) => ev_pc = "done"

C1_Witness ==
    /\ ev_pc = "done"
    /\ ev_first # None /\ ev_first[1].score < RETRY_THRESHOLD
    /\ ev_final # None /\ ev_final[1].score < RETRY_THRESHOLD
    /\ ev_final # ev_first
    /\ CallsOfKind("regenerate") = 1
    /\ CallsOfKind("judge") = 2

\* C2: with a non-empty context and an initial score greater than or equal to
\* the retry threshold, the step returns at once: finalAnswer is the input
\* answer, evaluationScore the initial score, and no regeneration call and no
\* second evaluation are made.
C2_NoRetryAtOrAboveThreshold ==
    (ev_first # None /\ ev_first[1].score >= RETRY_THRESHOLD) =>
        /\ ev_pc = "done"
        /\ ev_output # None
        /\ ev_output[1].finalAnswer = ev_input.generatedAnswer
        /\ ev_output[1].evaluationScore = Some(ev_first[1].score)
        /\ CallsOfKind("regenerate") = 0
        /\ CallsOfKind("judge") = 1
        /\ Len(ev_grounds) = 1

C2_Witness ==
    /\ ev_pc = "done"
    /\ ev_first # None /\ ev_first[1].score = RETRY_THRESHOLD
    /\ ev_output[1].finalAnswer = ev_input.generatedAnswer
    /\ ev_output[1].evaluationScore = Some(RETRY_THRESHOLD)

\* C3: an empty or whitespace-only context blob makes the step return the
\* fixed no-context answer with evaluationScore and isGrounded absent, and no
\* judge, embedding or regeneration call is made.
C3_EmptyContextShortCircuit ==
    (WhitespaceOnly(ev_input.relevantContext) /\ ev_pc # "start") =>
        /\ ev_pc = "done"
        /\ ev_thrown = None
        /\ ev_output = Some([finalAnswer |-> NoContextAnswer,
                             evaluationScore |-> None, isGrounded |-> None])
        /\ ev_calls = <<>>
        /\ ev_grounds = <<>>

C3_Witness ==
    /\ ev_pc = "done"
    /\ ev_input.relevantContext = <<" ", " ">>
    /\ ev_output[1].finalAnswer = NoContextAnswer

\* C10: a groundedness check whose answer or context is empty or
\* whitespace-only returns not-grounded and issues no embedding call; the
\* embedding calls made are exactly two per check that did embed.
C10_GroundednessFailsClosed ==
    /\ \A i \in 1..Len(ev_grounds) :
          (WhitespaceOnly(ev_grounds[i].answer) \/ WhitespaceOnly(ev_grounds[i].context)) =>
              /\ ~ev_grounds[i].embedded
              /\ ev_grounds[i].verdict = Some(FALSE)
    /\ CallsOfKind("embedAnswer") + CallsOfKind("embedContext")
          = 2 * Cardinality({i \in 1..Len(ev_grounds) : ev_grounds[i].embedded})
          + (IF ev_pc = "embedding" THEN 2 ELSE 0)

C10_Witness ==
    /\ ev_pc = "done"
    /\ Len(ev_grounds) = 2
    /\ ev_grounds[1].embedded
    /\ ev_grounds[2].answer = <<>>
    /\ ~ev_grounds[2].embedded
    /\ ev_grounds[2].verdict = Some(FALSE)

(***************************************************************************)
(* Properties of getContext                                                *)
(***************************************************************************)
FallbackStrategies == {"basic", "metadata", "documentation", "example"}

GcTerminated == gc_pc \in {"done", "failed"}

\* A structured result the formatter reads items from: an array of
\* vectorQueryTool results, each the item array itself or
\* { relevantContext: items }.
AcceptedShape(response) ==
    /\ response.toolResults # None
    /\ Len(response.toolResults[1]) >= 1
    /\ \A i \in 1..Len(response.toolResults[1]) :
          /\ response.toolResults[1][i].toolName = "vectorQueryTool"
          /\ response.toolResults[1][i].result.shape \in {"array", "wrapped"}

\* The items the formatter reads from a structured result.
ItemsIn(response) == FlatItems(response.toolResults[1], "vectorQueryTool")

\* C4: for basic / metadata / documentation / example with a non-empty
\* filter, when the filtered query returns zero items (in any result shape
\* the formatter accepts) and the unfiltered query returns at least one, the
\* blob returned is the one built from the unfiltered result.
C4_FallbackOnEmptyFilteredResult ==
    ( /\ gc_pc = "done"
      /\ gc_input.strategy \in FallbackStrategies
      /\ gc_input.filter = "nonEmpty"
      /\ AcceptedShape(gc_store.first) /\ ItemsIn(gc_store.first) = <<>>
      /\ AcceptedShape(gc_store.second) /\ ItemsIn(gc_store.second) # <<>> )
    => gc_output = Some(FormatItems(ItemsIn(gc_store.second)))

\* C5: the unfiltered fallback query is issued at most once, as the second
\* call of a run, with the query text and sparse vector of the first call and
\* no filter; once it returned the step ends without a further query, and a
\* fallback result of zero items gives an empty blob returned normally.
C5_SingleUnfilteredFallback ==
    LET fallbacks == {i \in 1..Len(gc_calls) : gc_calls[i].filter = "absent"}
    IN /\ Cardinality(fallbacks) <= 1
       /\ Len(gc_calls) <= 2
       /\ \A i \in fallbacks :
             /\ i = 2
             /\ gc_input.strategy \in FallbackStrategies
             /\ gc_calls[1].filter = "nonEmpty"
             /\ gc_calls[2] = [gc_calls[1] EXCEPT !.filter = "absent"]
             /\ gc_calls[2].queryText = gc_input.queryText
             /\ gc_calls[2].sparse = gc_sparse
       /\ (fallbacks # {} /\ gc_pc # "fallbackQuery") => GcTerminated
       /\ ( /\ fallbacks # {}
            /\ gc_pc = "done"
            /\ gc_store.second.toolResults # None
            /\ ItemsIn(gc_store.second) = <<>> )
          => (gc_output = Some(<<>>) /\ gc_thrown = None)

C5_Witness ==
    /\ gc_pc = "done"
    /\ Len(gc_calls) = 2
    /\ gc_calls[2].filter = "absent"
    /\ gc_calls[2].sparse = Some("keyword_sparse")
    /\ gc_store.second = VectorResult("wrapped", <<>>)
    /\ gc_output = Some(<<>>)

\* C6: for strategy graph the step issues exactly one call, to graphRAGTool,
\* with the query text only, and returns the blob built from its results.
C6_GraphInvokesRelationshipSearch ==
    (gc_input.strategy = "graph" /\ gc_mastra = "ok" /\ GcTerminated) =>
        /\ Len(gc_calls) = 1
        /\ gc_calls[1] = Query("graphRAGTool", gc_input.queryText, "absent", <<>>, None)

\* No result of phase A carries metadata.source among the summaries read.
NoSummarySource(response) ==
    response.toolResults # None =>
        \A i \in 1..Len(response.toolResults[1]) :
            LET toolResult == response.toolResults[1][i]
            IN (toolResult.toolName = "vectorQueryTool"
                    /\ toolResult.result.shape \in {"array", "wrapped"}) =>
                   \A k \in 1..Len(toolResult.result.items) :
                       k <= HIERARCHICAL_TOP_N_SUMMARIES =>
                           toolResult.result.items[k].metaSource = ""

\* C7: for strategy hierarchical, when phase A yields zero source file paths
\* (no results, or none carrying metadata.source), the phase-B chunk query is
\* never issued, no fallback query is issued and the blob returned is empty.
C7_HierarchicalNoPathsNoChunkQuery ==
    (gc_input.strategy = "hierarchical" /\ gc_paths # None) =>
        /\ gc_paths[1] = <<>> <=> NoSummarySource(gc_store.first)
        /\ NoSummarySource(gc_store.first) =>
              /\ gc_pc = "done"
              /\ Len(gc_calls) = 1
              /\ gc_calls[1].filter = "summaryFilter"
              /\ gc_output = Some(<<>>)
              /\ gc_thrown = None

C7_Witness ==
    /\ gc_input.strategy = "hierarchical"
    /\ gc_pc = "done"
    /\ gc_store.first = VectorResult("array", <<ItemA>>)
    /\ gc_store.second = VectorResult("array", <<ItemA>>)
    /\ gc_paths = Some(<<>>)
    /\ Len(gc_calls) = 1
    /\ gc_output = Some(<<>>)

(***************************************************************************)
(* Properties of the error handling                                        *)
(***************************************************************************)
\* A WorkflowError whose message starts with the text that names the stage.
IsStageError(e, stage) ==
    /\ e.type = "WorkflowError"
    /\ Len(e.message) >= 1
    /\ Head(e.message) = StagePrefix[stage]

\* C8: every error that escapes a stage is a WorkflowError whose message
\* names the stage and which carries the isRetryable classification; no bare
\* error leaves a stage.
C8_StageErrorsAreWrapped ==
    /\ ev_thrown # None => IsStageError(ev_thrown[1], "evaluateAndRetry")
    /\ gc_thrown # None => IsStageError(gc_thrown[1], "getContext")

\* The message, lower-cased, contains one of the four network patterns.
HasNetworkPattern(message) ==
    \E i \in 1..Len(message) :
        LowerWord(message[i]) \in {"econnrefused", "timeout", "network error", "fetch failed"}

\* C9 as stated: retryable exactly when the error carries a retryable marker
\* set to true, or its status is 429 or at least 500, or its message contains
\* a network pattern; null and undefined are non-retryable.
C9_RetryableExactlyWhen ==
    cls_pc = "classified" =>
        (cls_retryable <=>
            /\ cls_error.type \notin {"null", "undefined"}
            /\ \/ cls_error.type = "WorkflowError" /\ cls_error.isRetryable
               \/ cls_error.statusIsNumber
                    /\ (cls_error.status = 429 \/ cls_error.status >= 500)
               \/ cls_error.type \in {"Error", "WorkflowError", "object"}
                    /\ HasNetworkPattern(cls_error.message))

\* C9 as amended: for a WorkflowError only its isRetryable flag counts; any
\* other value is retryable exactly when it is not null or undefined and
\* either has a numeric status of 429 or at least 500, or is an Error instance
\* whose message contains a network pattern.
C9_RetryableByFlagThenStatusOrMessage ==
    cls_pc = "classified" =>
        (cls_retryable <=>
            IF cls_error.type = "WorkflowError" THEN cls_error.isRetryable
            ELSE /\ cls_error.type \notin {"null", "undefined"}
                 /\ \/ cls_error.statusIsNumber
                         /\ (cls_error.status = 429 \/ cls_error.status >= 500)
                    \/ cls_error.type = "Error" /\ HasNetworkPattern(cls_error.message))

C9_Witness ==
    /\ cls_pc = "classified"
    /\ cls_error.type = "WorkflowError"
    /\ ~cls_error.isRetryable
    /\ HasNetworkPattern(cls_error.message)
    /\ cls_original.type = "string"
    /\ ~cls_retryable

(***************************************************************************)
(* Properties of the groundedness check and of the returned envelope       *)
(***************************************************************************)
LastEvent == ev_events[Len(ev_events)]

\* The last external call to end was an embed call, and it rejected.
EmbeddingRejected ==
    /\ ev_events # <<>>
    /\ LastEvent.kind = "embed"
    /\ LastEvent.error # None

\* A value other than a WorkflowError that the classifier takes as
\* retryable: numeric status 429 or at least 500, or an Error instance whose
\* message holds a network pattern.
RetryableByStatusOrMessage(e) ==
    \/ e.statusIsNumber /\ (e.status = 429 \/ e.status >= 500)
    \/ e.type = "Error" /\ HasNetworkPattern(e.message)

\* C11 as stated: when an embed call of a groundedness check fails,
\* evaluateAndRetry ends with a propagated retryable WorkflowError and no
\* envelope, and the failed check never has the verdict grounded.
C11_EmbeddingFailureIsRetryableError ==
    EmbeddingRejected =>
        /\ ev_pc = "failed"
        /\ ev_output = None
        /\ ev_thrown # None
        /\ ev_thrown[1].type = "WorkflowError"
        /\ ev_thrown[1].isRetryable
        /\ ev_grounds[Len(ev_grounds)].verdict # Some(TRUE)

\* C11 as amended: when an embed call of a groundedness check rejects,
\* evaluateAndRetry ends with a propagated WorkflowError and no envelope, the
\* error's isRetryable flag being the classification of the value the embed
\* call rejected with; the failed check has no verdict. An embed call that
\* resolves without an embedding gives the verdict not grounded.
C11_EmbeddingFailurePropagatesClassified ==
    /\ EmbeddingRejected =>
          /\ ev_pc = "failed"
          /\ ev_output = None
          /\ ev_thrown # None
          /\ IsStageError(ev_thrown[1], "evaluateAndRetry")
          /\ ev_thrown[1].isRetryable = RetryableByStatusOrMessage(LastEvent.error[1])
          /\ ev_grounds[Len(ev_grounds)].embedded
          /\ ev_grounds[Len(ev_grounds)].verdict = None
    /\ \A i \in 1..Len(ev_events) :
          (ev_events[i].kind = "embed" /\ ev_events[i].error = None
                /\ ev_events[i].value = None)
            => \E j \in 1..Len(ev_grounds) :
                  ev_grounds[j].embedded /\ ev_grounds[j].verdict = Some(FALSE)

\* An embed call of the second evaluation rejected with a value the
\* classifier does not take as retryable.
C11_Witness ==
    /\ EmbeddingRejected
    /\ ev_attempt = 2
    /\ LastEvent.error[1].message = <<"boom">>
    /\ ~LastEvent.error[1].statusIsNumber
    /\ ev_thrown # None
    /\ ~ev_thrown[1].isRetryable

\* The embed events and the groundedness checks that awaited them, in order:
\* the i-th of the one belongs to the i-th of the other.
EmbedEvents == SelectSeq(ev_events, LAMBDA e : e.kind = "embed")
EmbeddedChecks == SelectSeq(ev_grounds, LAMBDA g : g.embedded)

\* C12 as stated: for a non-empty answer and context whose embeddings have
\* cosine similarity s, the verdict is grounded whenever the threshold is
\* less than or equal to s.
C12_GroundedAtOrAboveThreshold ==
    \A i \in 1..Len(EmbedEvents) :
        (EmbedEvents[i].value # None /\ GROUNDEDNESS_THRESHOLD <= EmbedEvents[i].value[1])
            => EmbeddedChecks[i].verdict = Some(TRUE)

\* C12 as amended: for a non-empty answer and context whose embeddings have
\* cosine similarity s, the verdict is grounded exactly when s is strictly
\* greater than the threshold; at s equal to the threshold it is not grounded.
C12_GroundedStrictlyAboveThreshold ==
    /\ Len(EmbedEvents) = Len(EmbeddedChecks)
    /\ \A i \in 1..Len(EmbedEvents) :
          EmbedEvents[i].value # None =>
              /\ ~IsBlank(EmbeddedChecks[i].answer)
              /\ ~IsBlank(EmbeddedChecks[i].context)
              /\ EmbeddedChecks[i].verdict =
                    Some(EmbedEvents[i].value[1] > GROUNDEDNESS_THRESHOLD)

\* A check whose similarity is exactly the threshold, found not grounded, and
\* one strictly above it, found grounded, in the same run.
C12_Witness ==
    /\ Len(EmbedEvents) = 2
    /\ EmbedEvents[1].value = Some(GROUNDEDNESS_THRESHOLD)
    /\ EmbeddedChecks[1].verdict = Some(FALSE)
    /\ EmbedEvents[2].value = Some(GROUNDEDNESS_THRESHOLD + 1)
    /\ EmbeddedChecks[2].verdict = Some(TRUE)

JudgeEvents == SelectSeq(ev_events, LAMBDA e : e.kind = "judge")
JudgeCalls == SelectSeq(ev_calls, LAMBDA c : c.kind = "judge")

\* execute() returned after the answer was regenerated.
ReturnedAfterRetry == ev_pc = "done" /\ CallsOfKind("regenerate") = 1

\* C13: when a retry happened, the returned envelope carries the regenerated
\* answer with the score and the groundedness of the second evaluation; the
\* first answer and the first score are not returned, even if the second
\* score is lower than the first.
C13_EnvelopeOfSecondEvaluation ==
    ReturnedAfterRetry =>
        /\ Len(JudgeEvents) = 2 /\ Len(JudgeCalls) = 2 /\ Len(ev_grounds) = 2
        /\ ev_output # None
        /\ ev_output[1].finalAnswer = JudgeCalls[2].answer
        /\ ev_output[1].evaluationScore = JudgeEvents[2].value
        /\ ev_output[1].isGrounded = ev_grounds[2].verdict

\* A retry whose second score is lower than the first, and whose second
\* groundedness verdict differs from the first.
C13_Witness ==
    /\ ReturnedAfterRetry
    /\ JudgeEvents[2].value[1] < JudgeEvents[1].value[1]
    /\ ev_output[1].evaluationScore = JudgeEvents[2].value
    /\ ev_output[1].finalAnswer = <<"b">>
    /\ ev_grounds[1].verdict = Some(TRUE)
    /\ ev_output[1].isGrounded = Some(FALSE)

(***************************************************************************)
(* Properties of the workflow, of transformQuery and of decideRetrieval    *)
(***************************************************************************)
\* The inputData the given step was started with, if it was started.
StartedWith(step) == SelectSeq(wf_inputs, LAMBDA i : i.step = step)

\* C14: the input of decideRetrieval is the original query the workflow
\* received, whatever the query transformer returned.
C14_RouterSeesRawQuery ==
    \A i \in 1..Len(StartedWith("decideRetrieval")) :
        StartedWith("decideRetrieval")[i].input.userQuery = wf_initData.userQuery

TransformerCalls == SelectSeq(wf_calls, LAMBDA c : c.agent = QUERY_TRANSFORMER_AGENT_NAME)
TransformerLookups == SelectSeq(wf_lookups, LAMBDA a : a = QUERY_TRANSFORMER_AGENT_NAME)

\* C15: with transformation type none, transformQuery returns the input
\* query unchanged without looking up or calling the transformer agent;
\* with rewrite or sub_queries a transformQuery that returned made exactly
\* one call and returned one string.
C15_TransformQueryModes ==
    /\ Len(TransformerCalls) <= 1
    /\ wf_mode = "none" =>
          /\ TransformerCalls = <<>>
          /\ TransformerLookups = <<>>
          /\ wf_pc \notin {"transformQuery", "transforming"} =>
                /\ wf_results.transformQuery # None
                /\ wf_results.transformQuery[1].transformedQuery = wf_initData.userQuery
    /\ (wf_mode # "none" /\ wf_results.transformQuery # None) =>
          /\ Len(TransformerCalls) = 1
          /\ TransformerCalls[1].prompt = TransformPrompt(wf_initData.userQuery, wf_mode)
          /\ wf_results.transformQuery[1].transformedQuery \in RewrittenQueries

\* Type none with no Mastra instance at all: the step still returned the query.
C15_Witness ==
    /\ wf_mode = "none"
    /\ wf_mastra = None
    /\ wf_results.transformQuery = Some([transformedQuery |-> "q2"])
    /\ wf_initData.userQuery = "q2"
    /\ wf_calls = <<>>

(***************************************************************************)
(* Properties of compressContext and of the context records                *)
(***************************************************************************)
\* C16: compressContext returns its input blob unchanged and makes no
\* extraction call when compression is disabled or the input blob is empty.
C16_CompressionSkipped ==
    (cc_pc \notin {"idle", "start"}
            /\ (~cc_enabled \/ cc_input.relevantContext = <<>>)) =>
        /\ cc_pc = "done"
        /\ cc_output = Some(cc_input.relevantContext)
        /\ cc_calls = <<>>
        /\ cc_thrown = None

\* Compression disabled, a blob of two records, no Mastra instance: the
\* blob came back as it was.
C16_Witness ==
    /\ cc_pc = "done"
    /\ ~cc_enabled
    /\ cc_mastra = None
    /\ Len(parseContextSnippets(cc_input.relevantContext)) = 2
    /\ cc_output = Some(cc_input.relevantContext)
    /\ cc_calls = <<>>

\* The records of the snippets whose extraction call resolved with an
\* extraction that is not blank, in the order of the calls.
RECURSIVE KeptRecords(_)
KeptRecords(outcomes) ==
    IF outcomes = <<>> THEN <<>>
    ELSE LET o == Head(outcomes)
         IN (IF o.extraction # None /\ ~WhitespaceOnly(o.extraction[1])
             THEN <<"File: ">> \o o.snippet.filePath \o HeaderSeparator
                      \o Trim(o.extraction[1]) \o RecordTerminator
             ELSE <<>>)
            \o KeptRecords(Tail(outcomes))

\* C17: with compression enabled and a blob that parses into n >= 1
\* snippets, there is exactly one extraction call per snippet, in input
\* order, and the output holds, in input order, exactly the records of the
\* snippets whose call resolved with a non-blank extraction, each under its
\* own file path; a failed or blank extraction drops that snippet alone and
\* never aborts the pass.
C17_ElementWiseCompression ==
    cc_snippets # <<>> =>
        /\ cc_enabled
        /\ cc_snippets = parseContextSnippets(cc_input.relevantContext)
        /\ cc_thrown = None
        /\ Len(cc_calls) <= Len(cc_snippets)
        /\ \A i \in 1..Len(cc_calls) :
              cc_calls[i] = ExtractionPrompt(cc_input.userQuery, cc_snippets[i])
        /\ \A i \in 1..Len(cc_outcomes) : cc_outcomes[i].snippet = cc_snippets[i]
        /\ cc_pc = "done" =>
              /\ Len(cc_calls) = Len(cc_snippets)
              /\ Len(cc_outcomes) = Len(cc_snippets)
              /\ cc_output = Some(KeptRecords(cc_outcomes))

\* Two snippets under different paths: the first extraction failed, the
\* second came back padded; the output is the record of the second alone.
C17_Witness ==
    /\ cc_pc = "done"
    /\ Len(cc_snippets) = 2
    /\ cc_snippets[1].filePath # cc_snippets[2].filePath
    /\ cc_outcomes[1].extraction = None
    /\ cc_outcomes[2].extraction = Some(<<"y", " ">>)
    /\ cc_output = Some(<<"File: ">> \o cc_snippets[2].filePath \o HeaderSeparator
                            \o <<"y">> \o RecordTerminator)

\* The string holds the pattern somewhere.
Contains(s, pattern) == \E i \in 1..Len(s) : OccursAt(s, pattern, i)

\* Neither the file path nor the content holds a fence or a "---".
DelimiterFree(snippet) ==
    /\ ~Contains(snippet.filePath, <<Fence>>) /\ ~Contains(snippet.filePath, <<"---">>)
    /\ ~Contains(snippet.content, <<Fence>>) /\ ~Contains(snippet.content, <<"---">>)

\* C18 as stated: for every sequence of {filePath, content} pairs that do
\* not contain the record delimiter, parsing the blob the formatter built
\* yields exactly the original sequence.
C18_ParseFormatRoundTrip ==
    (rt_pc = "parsed" /\ \A i \in 1..Len(rt_snippets) : DelimiterFree(rt_snippets[i]))
        => rt_parsed = rt_snippets

\* A pair the parser gives back up to white space: its file path is not
\* empty and holds no line break, its content does not hold the record
\* terminator.
Recoverable(snippet) ==
    /\ snippet.filePath # <<>>
    /\ ~Contains(snippet.filePath, <<"\n">>)
    /\ ~Contains(snippet.content, RecordTerminator)

\* C18 as amended: for every sequence of pairs whose file paths are not
\* empty and hold no line break and whose contents do not hold the record
\* terminator, parsing the formatted blob yields a sequence of the same
\* length and order whose file paths and contents are the originals with
\* leading and trailing white space removed.
C18_RoundTripUpToTrim ==
    (rt_pc = "parsed" /\ \A i \in 1..Len(rt_snippets) : Recoverable(rt_snippets[i]))
        => /\ Len(rt_parsed) = Len(rt_snippets)
           /\ \A i \in 1..Len(rt_snippets) :
                 /\ rt_parsed[i].filePath = Trim(rt_snippets[i].filePath)
                 /\ rt_parsed[i].content = Trim(rt_snippets[i].content)

\* Two records, the first with a padded path and a padded content, the
\* second with a content that starts with a fence: both came back trimmed.
C18_Witness ==
    /\ rt_pc = "parsed"
    /\ rt_snippets = <<Snippet(<<" ", "q">>, <<" ", "x", "\n">>),
                       Snippet(<<"p">>, <<Fence, "\n", "x">>)>>
    /\ rt_parsed = <<Snippet(<<"q">>, <<"x">>), Snippet(<<"p">>, <<Fence, "\n", "x">>)>>

(***************************************************************************)
(* Properties of the retrieval decision                                    *)
(***************************************************************************)
\* C19: every decision that passed the decision schema and reached the
\* retriever has a null filter when its strategy is basic, graph or
\* hierarchical; for strategy basic the unfiltered fallback is never issued.
C19_NullFilterForBasicGraphHierarchical ==
    gc_pc # "idle" =>
        /\ gc_input.strategy \in {"basic", "graph", "hierarchical"}
                => gc_input.filter = "null"
        /\ gc_input.strategy = "basic" =>
              /\ Len(gc_calls) <= 1
              /\ \A i \in 1..Len(gc_calls) : gc_calls[i].filter = "null"
              /\ gc_pc # "fallbackQuery"

\* Strategy basic, the one query came back with zero items: the step
\* returned the empty blob without a second query.
C19_Witness ==
    /\ gc_pc = "done"
    /\ gc_input.strategy = "basic"
    /\ gc_store.first = VectorResult("array", <<>>)
    /\ Len(gc_calls) = 1
    /\ gc_output = Some(<<>>)

(***************************************************************************)
(* Properties of QdrantVector.query                                        *)
(***************************************************************************)
HasSparseIndex ==
    qv_params.querySparseVector # None
        /\ Len(qv_params.querySparseVector[1].indices) >= 1

\* C20: a call of query whose filter translates sends at most one request:
\* a fused (rrf) query over the dense and the sparse vector when a sparse
\* vector with at least one index is supplied, otherwise a dense-only query
\* with the dense vector; with neither it fails with an error and sends no
\* request.
C20_OneQueryPathPerCall ==
    /\ Len(qv_requests) <= 1
    /\ (qv_pc \notin {"idle", "start"} /\ ~IsThrow(translate(qv_params.filter))) =>
          /\ HasSparseIndex =>
                /\ Len(qv_requests) = 1
                /\ qv_requests[1].query.fusion = "rrf"
                /\ qv_requests[1].query.vector = qv_params.queryVector
                /\ qv_requests[1].query.sparse # None
                /\ qv_requests[1].query.sparse[1].indices
                      = qv_params.querySparseVector[1].indices
                /\ qv_requests[1].query.sparse[1].values
                      = qv_params.querySparseVector[1].values
          /\ (~HasSparseIndex /\ qv_params.queryVector # None) =>
                /\ Len(qv_requests) = 1
                /\ qv_requests[1].query.fusion = "none"
                /\ qv_requests[1].query.sparse = None
                /\ qv_requests[1].query.vector = qv_params.queryVector
          /\ (~HasSparseIndex /\ qv_params.queryVector = None) =>
                /\ qv_requests = <<>>
                /\ qv_pc = "failed"
                /\ qv_thrown # None
                /\ qv_thrown[1].type = "Error"
                /\ qv_result = None

\* A dense vector with a sparse vector that has no index: one dense-only
\* request was sent and the call returned.
C20_Witness ==
    /\ qv_pc = "done"
    /\ qv_params.queryVector = Some(<<1, 2>>)
    /\ qv_params.querySparseVector = Some(SparseVector("keyword_sparse", <<>>, <<>>))
    /\ Len(qv_requests) = 1
    /\ qv_requests[1].query.fusion = "none"
    /\ qv_result # None

(***************************************************************************)
(* C21: batched upsert                                                     *)
(***************************************************************************)
RECURSIVE ConcatPoints(_)
ConcatPoints(requests) ==
    IF requests = <<>> THEN <<>>
    ELSE ConcatPoints(SubSeq(requests, 1, Len(requests) - 1))
            \o requests[Len(requests)].points

\* ceil(n / BATCH_SIZE)
BatchCount(n) == (n + BATCH_SIZE - 1) \div BATCH_SIZE

\* ids is absent or holds one id per vector.
IdsParallel == up_params.ids = None \/ Len(up_params.ids[1]) = up_params.vectors

OnlyDecimalDigits(id) == id # <<>> /\ {id[i] : i \in 1..Len(id)} \subseteq Digits

\* C22: updateIndexById and deleteIndexById address a numeric point
\* identifier for an id string of decimal digits only, and the unchanged
\* string for every other id string, the empty one and signed ones included.
C22_NumericIdsCoerced ==
    \A k \in 1..Len(pid_requests) :
        IF OnlyDecimalDigits(pid_call.id)
        THEN /\ pid_requests[k].point.type = "number"
             /\ pid_requests[k].point.value \in Nat
        ELSE pid_requests[k].point = StringId(pid_call.id)

\* Both methods have addressed a point: a signed id stayed a string, a
\* digit id became the number it spells.
C22_Witness ==
    /\ pid_requests # <<>>
    /\ \/ /\ pid_call = [method |-> "deleteIndexById", id |-> <<"-", "1">>,
                          update |-> NoUpdate]
          /\ pid_requests[1].point = StringId(<<"-", "1">>)
       \/ /\ pid_call.method = "updateIndexById"
          /\ pid_call.id = <<"1", "9">>
          /\ pid_requests[1].point = NumberId(19)

(***************************************************************************)
(* C23..C26: the filter translator                                         *)
(***************************************************************************)
\* Every key of the objects of a value, at any depth.
RECURSIVE AllKeys(_)
AllKeys(v) ==
    CASE v.t = "array" -> UNION {AllKeys(v.items[i]) : i \in 1..Len(v.items)}
      [] v.t = "object" ->
            UNION {{v.entries[i][1]} \cup AllKeys(v.entries[i][2]) : i \in 1..Len(v.entries)}
      [] OTHER -> {}

\* The filter contains an operator outside the supported-operator table.
HasUnknownOperator(filter) ==
    \E key \in AllKeys(filter) : isOperator(key) /\ key \notin SupportedOperators

\* C23: translating a filter that contains an operator outside the
\* supported-operator table fails with the validation error and returns no
\* native filter, and query, which translates the filter first, sends no
\* request to the store for such a filter.
C23_UnknownOperatorFailsClosed ==
    HasUnknownOperator(qv_params.filter) =>
        /\ IsThrow(translate(qv_params.filter))
        /\ translate(qv_params.filter).message = "Unsupported operator"
        /\ qv_requests = <<>>
        /\ qv_result = None
        /\ qv_pc \notin {"idle", "start"} =>
              /\ qv_pc = "failed"
              /\ qv_thrown = Some(PlainError(<<"Unsupported operator">>))

\* A query with a dense vector and a filter that holds $bogus beside a must
\* list has failed.
C23_Witness ==
    /\ qv_pc = "failed"
    /\ qv_params.filter = Obj(<< <<"must", Arr(<<>>)>>, <<"$bogus", Num(1)>> >>)
    /\ qv_params.queryVector # None
    /\ qv_requests = <<>>

\* The conditions a translated filter holds: the members of its must list,
\* or the filter itself.
ConditionsOf(native) ==
    IF IsObject(native) /\ HasKey(native, "must") /\ Get(native, "must").t = "array"
    THEN {Get(native, "must").items[i] : i \in 1..Len(Get(native, "must").items)}
    ELSE {native}

\* The filter is { f: { [operator]: operand } } for some operand.
IsFieldCondition(filter, operator) ==
    /\ IsObject(filter)
    /\ Keys(filter) = <<"f">>
    /\ IsObject(Get(filter, "f"))
    /\ Keys(Get(filter, "f")) = <<operator>>

Operand(filter) == Get(filter, "f").entries[1][2]

\* C24: translating { field: { $regex: p } } yields the text-match condition
\* { key: field, match: { text: sanitized(p) } }.
C24_RegexIsTextMatch ==
    (ft_pc \notin {"idle", "start"} /\ IsFieldCondition(ft_filter, "$regex")) =>
        /\ ft_pc = "translated"
        /\ Obj(<< <<"key", Str(<<"f">>)>>,
                  <<"match", Obj(<< <<"text",
                        Str(sanitizeRegex(Operand(ft_filter).tokens))>> >>)>> >>)
              \in ConditionsOf(ft_result)

\* { is_null: { key: field } }
IsNullOn(field) == Obj(<< <<"is_null", Obj(<< <<"key", Str(<<field>>)>> >>)>> >>)

\* C25: translating { field: { $exists: true } } succeeds and yields the
\* negation of the is-null predicate on the field, and { field: { $exists:
\* false } } yields the is-null predicate on the field.
C25_ExistsMapsToIsNull ==
    (ft_pc \notin {"idle", "start"} /\ IsFieldCondition(ft_filter, "$exists")) =>
        /\ ft_pc = "translated"
        /\ IF Operand(ft_filter) = Bool(TRUE)
           THEN Obj(<< <<"must_not", Arr(<<IsNullOn("f")>>)>> >>) \in ConditionsOf(ft_result)
           ELSE IsNullOn("f") \in ConditionsOf(ft_result)

\* A must-wrapped list of conditions.
MustWrapped(native) ==
    IsObject(native) /\ HasKey(native, "must") /\ Get(native, "must").t = "array"

\* An object that is one condition: it has properties and no must list.
SingleCondition(native) ==
    IsObject(native) /\ native.entries # <<>> /\ ~HasKey(native, "must")

KnownTerms ==
    IF sv_vocabulary = None THEN {}
    ELSE {processTextToFinalTokens(sv_query)[i] :
            i \in 1..Len(processTextToFinalTokens(sv_query))}
            \cap DOMAIN sv_vocabulary[1]

\* C27: processQueryForSparseVector returns none exactly when no processed
\* query term is a key of the vocabulary; otherwise indices and values have
\* the same non-zero length and pair, position by position, the vocabulary
\* index of one distinct known term with the number of its occurrences among
\* the processed tokens; terms outside the vocabulary contribute nothing.
C27_SparseVectorOfKnownTerms ==
    sv_pc = "done" =>
        /\ sv_result = None <=> KnownTerms = {}
        /\ sv_result # None =>
              LET indices == sv_result[1].indices
                  values == sv_result[1].values
              IN /\ Len(indices) = Len(values)
                 /\ Len(indices) > 0
                 /\ \E term \in [1..Len(indices) -> KnownTerms] :
                       /\ \A i, j \in 1..Len(indices) : term[i] = term[j] => i = j
                       /\ {term[i] : i \in 1..Len(indices)} = KnownTerms
                       /\ \A i \in 1..Len(indices) :
                             /\ indices[i] = sv_vocabulary[1][term[i]]
                             /\ values[i] = Occurrences(
                                    processTextToFinalTokens(sv_query), term[i])

\* A query with a known term twice, a known term once and an unknown
\* compound in between returned the two known terms with their counts.
C27_Witness ==
    /\ sv_pc = "done"
    /\ sv_query = <<"alpha", ";", "alpha_tokens">>
    /\ sv_vocabulary # None
    /\ DOMAIN sv_vocabulary[1] = {<<"alpha">>, <<"token">>}
    /\ sv_result = Some(SparseVector("keyword_sparse", <<3, 5>>, <<2, 1>>))

\* How often a word occurs in the query.
WordCount(word) == Cardinality({i \in 1..Len(sv_query) : sv_query[i] = word})

\* C28: for a query in which a vocabulary-known term appears exactly twice
\* (the same word twice, separated by a space for one), the sparse vector
\* returned has the value 2 at that term's index.
C28_RepeatedTermCountsTwice ==
    \A word \in {"alpha", "tokens"} :
        ( /\ sv_pc = "done"
          /\ sv_vocabulary # None
          /\ WordCount(word) = 2
          /\ WordCount("alpha_tokens") = 0
          /\ stem(<<word>>) \in DOMAIN sv_vocabulary[1] )
        => /\ sv_result # None
           /\ \E i \in 1..Len(sv_result[1].indices) :
                 /\ sv_result[1].indices[i] = sv_vocabulary[1][stem(<<word>>)]
                 /\ sv_result[1].values[i] = 2

(***************************************************************************)
(* C29, C30: the vocabulary in getContext                                  *)
(***************************************************************************)
\* The sparse vector generation of this run ended without a vocabulary or
\* with an error.
SparseGenerationFailed == gc_load \in {Some("no vocabulary"), Some("throws")}

DenseOnly == \A i \in 1..Len(gc_calls) : gc_calls[i].sparse = None

\* C29: when the vocabulary cannot be loaded or the sparse vector generation
\* fails, getContext goes on: the first retrieval query of the strategy is
\* issued, and every query of the run is issued without a sparse vector;
\* when hybrid search is disabled the vocabulary is never read and no query
\* carries a sparse vector.
C29_SparseFailureIsDenseOnly ==
    /\ SparseGenerationFailed =>
          /\ gc_pc # "loadVocabulary"
          /\ gc_sparse = None
          /\ DenseOnly
          /\ gc_input.strategy # "graph" => Len(gc_calls) >= 1
          /\ gc_pc = "failed" => (gc_input.strategy = "graph" \/ Len(gc_calls) >= 1)
    /\ ~gc_hybrid => (gc_load = None /\ gc_reads = 0 /\ DenseOnly)

\* A run whose sparse vector generation threw returned after a filtered
\* query and the fallback query, both dense-only.
C29_Witness ==
    /\ gc_load = Some("throws")
    /\ gc_pc = "done"
    /\ Len(gc_calls) = 2
    /\ DenseOnly

\* C30: over any sequence of runs with hybrid search enabled, the vocabulary
\* resource is read at most once.
C30_VocabularyReadAtMostOnce == gc_hybrid => gc_reads <= 1

(***************************************************************************)
(* C31, C36, C40: the run of the workflow as a whole                       *)
(***************************************************************************)
\* The steps started so far, in order.
StartedSteps == [i \in 1..Len(wf_inputs) |-> wf_inputs[i].step]

StepOrder == <<"transformQuery", "decideRetrieval", "getContext", "compressContext",
               "generateResponse", "evaluateAndRetry">>

Registered(agent) == wf_mastra # None /\ agent \in wf_mastra[1]

\* In this step of the run a stage started and asked for a collaborator that
\* is not registered: an agent, or (getContext) the Mastra instance itself.
AsksForMissingCollaborator ==
    /\ Len(wf_inputs') = Len(wf_inputs) + 1
    /\ \/ \E i \in (Len(wf_lookups) + 1)..Len(wf_lookups') : ~Registered(wf_lookups'[i])
       \/ wf_pc = "getContext" /\ wf_mastra = None

\* C31: a stage that asks for a collaborator that is not registered fails at
\* once with a non-retryable error and makes no call; once the run has
\* failed no stage starts and no call is made.
C31_MissingCollaboratorAborts ==
    [][ /\ AsksForMissingCollaborator =>
              /\ wf_pc' = "failed"
              /\ wf_thrown' # None
              /\ ~isRetryableError(wf_thrown'[1])
              /\ wf_calls' = wf_calls
              /\ wf_results' = wf_results
        /\ wf_pc = "failed" => UNCHANGED wfVars ]_vars

\* The evaluation agent alone is missing: the run reached evaluateAndRetry
\* with a context and failed there, the judge never called.
C31_Witness ==
    /\ wf_pc = "failed"
    /\ wf_mastra = Some(AgentNames \ {EVALUATION_AGENT_NAME})
    /\ StartedSteps = StepOrder
    /\ wf_lookups[Len(wf_lookups)] = EVALUATION_AGENT_NAME
    /\ \A i \in 1..Len(wf_calls) : wf_calls[i].agent # EVALUATION_AGENT_NAME
    /\ ~wf_thrown[1].isRetryable

\* ragWorkflowTool.execute once run.start() has settled: the output of
\* evaluateAndRetry, or one error.
ragWorkflowTool ==
    IF wf_pc # "done"
    THEN [kind |-> "thrown",
          error |-> PlainError(<<"Failed to process query through RAG workflow",
                                 "Workflow execution failed">>)]
    ELSE [kind |-> "returned", output |-> wf_results.evaluateAndRetry[1]]

\* C36: the stages start in the fixed order, each at most once; getContext
\* starts only with the transformer's output and the router's decision at
\* hand; a failed stage is the last one started; a run ends with the result
\* envelope or with one error, never both.
C36_FixedOrderOneOutcome ==
    /\ StartedSteps = SubSeq(StepOrder, 1, Len(wf_inputs))
    /\ \A i \in 1..Len(wf_inputs) :
          wf_inputs[i].step = "getContext" =>
              /\ wf_results.transformQuery # None
              /\ wf_results.decideRetrieval # None
              /\ wf_inputs[i].input.queryText =
                    wf_results.transformQuery[1].transformedQuery
              /\ wf_inputs[i].input.decision = wf_results.decideRetrieval[1]
    /\ \A i \in 1..Len(StepOrder) :
          wf_results[StepOrder[i]] # None <=>
              \/ i < Len(wf_inputs)
              \/ i = Len(wf_inputs) /\ wf_pc = (Append(Tail(StepOrder), "done"))[i]
    /\ wf_thrown # None <=> wf_pc = "failed"
    /\ wf_pc = "failed" => wf_results[StartedSteps[Len(wf_inputs)]] = None
    /\ wf_pc = "done" =>
          /\ StartedSteps = StepOrder
          /\ ragWorkflowTool.kind = "returned"
          /\ ragWorkflowTool.output \in Envelopes \cup {NoContextEnvelope}
    /\ wf_pc = "failed" => ragWorkflowTool.kind = "thrown"

\* A run that went through the six stages and returned an evaluated answer.
C36_Witness ==
    /\ wf_pc = "done"
    /\ StartedSteps = StepOrder
    /\ wf_results.evaluateAndRetry[1].evaluationScore # None
    /\ wf_mode = "rewrite"
    /\ wf_compression

\* The context generateResponse and evaluateAndRetry are given.
FinalContext == wf_results.compressContext[1].finalCompressedContext

GenerationCalls == SelectSeq(wf_calls, LAMBDA c : c.agent = RAG_AGENT_NAME)

\* C40: with an empty (or blank) context blob out of compressContext,
\* generateResponse is still started once and, its agent found, makes its
\* one generation call over the empty context; a run that then returns
\* returns the fixed no-context envelope, whatever the query and the answer
\* generated, and no evaluation call is made.
C40_EmptyContextAnswerDiscarded ==
    (wf_results.compressContext # None /\ FinalContext \in {"", " "}) =>
        /\ wf_pc # "generateResponse" =>
              /\ Len(SelectSeq(StartedSteps, LAMBDA s : s = "generateResponse")) = 1
              /\ Registered(RAG_AGENT_NAME) =>
                    GenerationCalls =
                        <<AgentCall(RAG_AGENT_NAME,
                              GeneratePrompt(wf_results.transformQuery[1].transformedQuery,
                                             FinalContext))>>
        /\ wf_pc # "evaluating"
        /\ \A i \in 1..Len(wf_calls) : wf_calls[i].agent # EVALUATION_AGENT_NAME
        /\ wf_pc = "done" =>
              /\ wf_results.generateResponse # None
              /\ wf_results.evaluateAndRetry = Some(NoContextEnvelope)
              /\ ragWorkflowTool.output.finalAnswer =
                    "No relevant context found to generate an answer."

\* Retrieval came back empty, an answer was generated for the rewritten
\* query and the run returned the no-context envelope.
C40_Witness ==
    /\ wf_pc = "done"
    /\ wf_results.getContext = Some([relevantContext |-> ""])
    /\ wf_results.generateResponse = Some([answer |-> "another answer"])
    /\ wf_results.transformQuery = Some([transformedQuery |-> "r1"])
    /\ Len(GenerationCalls) = 1
    /\ wf_results.evaluateAndRetry = Some(NoContextEnvelope)

(***************************************************************************)
(* C32: the two phases of the hierarchical strategy                        *)
(***************************************************************************)
\* The phase-A results in returned order, and the sources of the first
\* HIERARCHICAL_TOP_N_SUMMARIES of them.
SummaryResults ==
    IF gc_store.first.toolResults = None THEN <<>>
    ELSE FlatItems(gc_store.first.toolResults[1], "vectorQueryTool")

TopSummarySources == SourcesOf(Slice0(SummaryResults, HIERARCHICAL_TOP_N_SUMMARIES))

ChunkResults ==
    IF gc_store.second.toolResults = None THEN <<>>
    ELSE FlatItems(gc_store.second.toolResults[1], "vectorQueryTool")

\* C32: for strategy hierarchical, phase A is issued first with the fixed
\* file-summary filter and the main sparse vector; phase B is issued at most
\* once, after phase A resolved, restricted to the sources of the first
\* HIERARCHICAL_TOP_N_SUMMARIES phase-A results in rank order, so with at
\* most that many file identifiers; the blob is the phase-B chunks in order.
C32_HierarchicalPhases ==
    (gc_input.strategy = "hierarchical" /\ gc_calls # <<>>) =>
        /\ gc_calls[1] = Query("vectorQueryTool", gc_input.queryText, "summaryFilter",
                               <<>>, gc_sparse)
        /\ Len(gc_calls) <= 2
        /\ Len(gc_calls) = 2 =>
              /\ gc_paths # None
              /\ gc_calls[2].filter = "chunkFilter"
              /\ gc_calls[2].sparse = gc_sparse
              /\ gc_calls[2].paths = TopSummarySources
              /\ Len(gc_calls[2].paths) <= HIERARCHICAL_TOP_N_SUMMARIES
        /\ (gc_pc = "done" /\ Len(gc_calls) = 2) =>
              gc_output = Some(FormatItems(ChunkResults))

(***************************************************************************)
(* C33, C34: nesting in the filter translator, and what it passes over     *)
(***************************************************************************)
\* A node of field conditions: an object with keys, none of them a logical
\* operator, that is not a native filter.
IsFieldNode(node) ==
    /\ IsObject(node)
    /\ node.entries # <<>>
    /\ ~HasKey(node, "must")
    /\ \A i \in 1..Len(node.entries) : ~isLogicalOperator(node.entries[i][1])

\* The filter is one logical operator over a list of children.
IsLogicalOverList ==
    /\ IsObject(ft_filter)
    /\ Len(ft_filter.entries) = 1
    /\ ft_filter.entries[1][1] \in {"$and", "$or"}
    /\ ft_filter.entries[1][2].t = "array"

\* The children of the filter and what the result holds in their places.
ChildNodes == ft_filter.entries[1][2].items
Emitted == ft_result.entries[1][2].items

ValueCondition(key) ==
    Obj(<< <<"key", Str(<<key>>)>>, <<"match", Obj(<< <<"value", Num(1)>> >>)>> >>)

\* What the nesting rule says of the children of a logical operator: a field
\* node is emitted bare or as a must list of several conditions, the two
\* children of the model with one and with two conditions as claimed.
NestedRule ==
    (ft_pc = "translated" /\ IsLogicalOverList) =>
        /\ Len(Emitted) = Len(ChildNodes)
        /\ \A i \in 1..Len(ChildNodes) :
              IsFieldNode(ChildNodes[i]) =>
                  /\ HasKey(Emitted[i], "must") =>
                        Len(Get(Emitted[i], "must").items) >= 2
                  /\ ChildNodes[i] = Field("f", Num(1)) => Emitted[i] = ValueCondition("f")
                  /\ ChildNodes[i] = Obj(<< <<"f", Num(1)>>, <<"g", Num(1)>> >>) =>
                        Emitted[i] = Obj(<< <<"must", Arr(<<ValueCondition("f"),
                                                          ValueCondition("g")>>)>> >>)
        /\ ft_filter = Field("$and", Arr(<<Field("f", Num(1))>>)) =>
              ft_result = Obj(<< <<"must", Arr(<<ValueCondition("f")>>)>> >>)

RECURSIVE AllObjects(_)
AllObjects(v) ==
    CASE v.t = "array" -> UNION {AllObjects(v.items[i]) : i \in 1..Len(v.items)}
      [] v.t = "object" ->
            {v} \cup UNION {AllObjects(v.entries[i][2]) : i \in 1..Len(v.entries)}
      [] OTHER -> {}

IsPrefix(p, s) == Len(p) <= Len(s) /\ SubSeq(s, 1, Len(p)) = p

\* Some condition of the result is on the field at the path, or below it.
Mentions(result, path) ==
    \E o \in AllObjects(result) :
        /\ HasKey(o, "key")
        /\ Get(o, "key").t = "string"
        /\ IsPrefix(path, Get(o, "key").tokens)

\* Some condition of the result on the field holds what the operator
\* translates to: a bound of its range, or its match.
OperatorRepresented(result, fieldKey, opResult) ==
    \E o \in AllObjects(result) :
        /\ HasKey(o, "key")
        /\ Get(o, "key") = KeyOf(fieldKey)
        /\ IF HasKey(opResult, "range")
           THEN /\ HasKey(o, "range")
                /\ \A i \in 1..Len(Get(opResult, "range").entries) :
                      \E j \in 1..Len(Get(o, "range").entries) :
                          Get(o, "range").entries[j] = Get(opResult, "range").entries[i]
           ELSE HasKey(o, "match") /\ Get(o, "match") = opResult

\* The keys of the nodes of a filter that no condition of the result
\* represents: logical operators, custom operators, operators on a field,
\* and fields with the path that leads to them.  A field compared with the
\* empty object asks for nothing and is not counted.
RECURSIVE IgnoredKeys(_, _, _)
IgnoredKeys(node, fieldKey, result) ==
    CASE node.t = "array" ->
            UNION {IgnoredKeys(node.items[i], fieldKey, result) : i \in 1..Len(node.items)}
      [] node.t = "object" /\ ~HasKey(node, "must") ->
            UNION {LET key == node.entries[i][1]
                       value == node.entries[i][2]
                       nestedKey ==
                          IF fieldKey # None /\ fieldKey[1] # <<>>
                          THEN fieldKey[1] \o <<".", key>> ELSE <<key>>
                   IN IF isCustomOperator(key)
                      THEN IF translateCustomOperator(key, value, fieldKey)
                                \in AllObjects(result)
                           THEN {} ELSE {<<key>>}
                      ELSE IF isLogicalOperator(key)
                      THEN (IF \E o \in AllObjects(result) :
                                  HasKey(o, getQdrantLogicalOp(key).tokens[1])
                            THEN {} ELSE {<<key>>})
                               \cup IgnoredKeys(value, None, result)
                      ELSE IF isOperator(key)
                      THEN IF OperatorRepresented(result, fieldKey,
                                  translateOperatorValue(key, value, fieldKey))
                           THEN {} ELSE {<<key>>}
                      ELSE IF value = Obj(<<>>) THEN {}
                      ELSE (IF Mentions(result, nestedKey) THEN {} ELSE {nestedKey})
                               \cup IgnoredKeys(value, Some(nestedKey), result)
                   : i \in 1..Len(node.entries)}
      [] OTHER -> {}

\* C34: when translate returns, every key of every node of the filter is
\* represented by a condition of the result: the siblings of a leading
\* logical operator and each of several operators on one field included.
C34_NothingSilentlyIgnored ==
    ft_pc = "translated" => IgnoredKeys(ft_filter, None, ft_result) = {}

(***************************************************************************)
(* C35: point identity through the id conversion                           *)
(***************************************************************************)
ById == {"updateIndexById", "deleteIndexById"}

\* C35: two calls of updateIndexById / deleteIndexById with distinct id
\* strings never address the same point, and a point upsert wrote under an
\* id string is the point updateIndexById and deleteIndexById address for
\* that id string, so that deleting it leaves the store without it.
C35_PointIdentityRoundTrips ==
    \A i, j \in 1..Len(st_calls) :
        /\ (/\ st_calls[i].method \in ById
            /\ st_calls[j].method \in ById
            /\ st_calls[i].id # st_calls[j].id)
              => st_calls[i].point # st_calls[j].point
        /\ (/\ st_calls[i].method = "upsert"
            /\ st_calls[j].method \in ById
            /\ st_calls[i].id = st_calls[j].id)
              => /\ st_calls[i].point = st_calls[j].point
                 /\ (i = 1 /\ j = 2 /\ st_calls[j].method = "deleteIndexById")
                       => st_points = {}

(***************************************************************************)
(* C37, C38: evaluateAndRetry, the errors of its calls and their context   *)
(***************************************************************************)
\* The error the last external call of the run rejected with, if it did.
RaisedByCall ==
    IF ev_events # <<>> THEN ev_events[Len(ev_events)].error ELSE None

\* C37: when an external call of evaluateAndRetry (judge, embedding,
\* regeneration) rejects, the error that leaves the step is a WorkflowError
\* whose isRetryable flag is what isRetryableError gives to the error the
\* call rejected with, through the two or three wrappers and whatever the
\* wrapper messages hold.
C37_RetryabilityThroughWrappers ==
    (ev_pc = "failed" /\ RaisedByCall # None) =>
        /\ ev_thrown[1].type = "WorkflowError"
        /\ ev_thrown[1].isRetryable = isRetryableError(RaisedByCall[1])

\* An embedding call threw the string "timeout", which is not retryable;
\* the error that left the step went through three wrappers, has "timeout"
\* in its message and is not retryable.
C37_Witness ==
    /\ ev_pc = "failed"
    /\ RaisedByCall # None
    /\ ev_events[Len(ev_events)].kind = "embed"
    /\ RaisedByCall[1] = ErrorValue("string", FALSE, 0, <<"timeout">>, FALSE)
    /\ Len(ev_thrown[1].message) = 4
    /\ Includes(ev_thrown[1].message, "timeout")
    /\ ~ev_thrown[1].isRetryable

\* The first MAX_CONTEXT_LENGTH characters of the input blob, the whole
\* blob when it is not longer.
CutBlob ==
    [i \in 1..(IF Len(ev_input.relevantContext) > MAX_CONTEXT_LENGTH
               THEN MAX_CONTEXT_LENGTH ELSE Len(ev_input.relevantContext))
        |-> ev_input.relevantContext[i]]

ContextCalls == {"judge", "embedContext", "regenerate"}

\* C38: every call of one evaluateAndRetry run that is given a context (the
\* judge prompt of the first and of the final evaluation, the groundedness
\* check and its embedding of the context, the regeneration prompt) is given
\* the same one: the first MAX_CONTEXT_LENGTH characters of the input blob,
\* never more.
C38_OneTruncatedContext ==
    /\ \A k \in 1..Len(ev_calls) :
          ev_calls[k].kind \in ContextCalls =>
              /\ ev_calls[k].context = CutBlob
              /\ Len(ev_calls[k].context) <= MAX_CONTEXT_LENGTH
    /\ \A k \in 1..Len(ev_grounds) : ev_grounds[k].context = CutBlob

\* A run over a blob longer than MAX_CONTEXT_LENGTH returned after two
\* evaluations, two groundedness checks with embeddings and a regeneration.
C38_Witness ==
    /\ ev_pc = "done"
    /\ Len(ev_input.relevantContext) > MAX_CONTEXT_LENGTH
    /\ {ev_calls[k].kind : k \in 1..Len(ev_calls)} = ContextCalls \cup {"embedAnswer"}
    /\ Len(SelectSeq(ev_calls, LAMBDA c : c.kind = "judge")) = 2
    /\ Len(SelectSeq(ev_calls, LAMBDA c : c.kind = "embedContext")) = 2
    /\ Len(ev_grounds) = 2

(***************************************************************************)
(* C39: an upsert the store rejects                                        *)
(***************************************************************************)
\* What the store holds of this upsert: the points of the batches it
\* acknowledged.
Written == ConcatPoints(SubSeq(up_requests, 1, up_acks))

\* C39: when the store rejects batch k, upsert fails with the error of the
\* store and returns nothing, batch k was sent once and no batch after it,
\* and the store holds batches 1 to k-1: the first 256 * (k-1) records.
C39_FailedUpsertLeavesBatchPrefix ==
    up_pc = "failed" =>
        LET k == Len(up_requests)
        IN /\ k >= 1
           /\ up_thrown # None
           /\ up_thrown[1] \in UpThrown
           /\ up_result = None
           /\ up_acks = k - 1
           /\ Written = SubSeq(up_records, 1, BATCH_SIZE * (k - 1))
           /\ Len(Written) < Len(up_records)
           /\ ConcatPoints(up_requests)
                 = SubSeq(up_records, 1, IF BATCH_SIZE * k < Len(up_records)
                                         THEN BATCH_SIZE * k ELSE Len(up_records))

\* The store rejected the third batch of an upsert of more than two full
\* batches: the first two are written.
C39_Witness ==
    /\ up_pc = "failed"
    /\ Len(up_requests) = 3
    /\ up_params.vectors > 2 * BATCH_SIZE
    /\ Len(Written) = 2 * BATCH_SIZE

====
